---- MODULE Spec2Model ----
(***************************************************************************)
(* Message statistics of PokestarBot: the Statistic table, the live ingest *)
(* listener (Statistics.on_message), the recalculation engine              *)
(* (StatisticsRecalculate.recalculate_channel) and its worker pool.        *)
(*                                                                         *)
(* The bot runs on one asyncio event loop: code between two awaits is one  *)
(* atomic step, so every action below is the code from one suspension      *)
(* point (lock wait, database call, history fetch, queue get) to the next. *)
(***************************************************************************)
EXTENDS Integers, Sequences, FiniteSets, TLC

----------------------------------------------------------------------------
(* Bounds of the model *)

MaxMsgs == 2          \* messages posted while the bot is running
MaxTasks == 1         \* tasks enqueued while messages are being posted
MaxPoolTasks == 2     \* tasks enqueued when the channels are quiet
MaxHist == 3          \* messages of a channel posted before the bot started
MaxLoads == 2         \* activations (cog_load) of the Statistics cog
MaxTime == 2          \* last instant at which a message is posted
MaxNotices == 25      \* notices put by the calls of the send_*_message functions
MaxCommands == 2      \* commands of the owner that fan out over channels
MaxTop == 2           \* largest top_channels a query asks for
MaxQueries == 1       \* /statistics queries answered
TicksPerMonth == 2    \* instants per calendar month of the clock

(* Program constants *)

NumWorkers == 5       \* for _ in range(5) in start_workers
LogCeiling == 1700    \* len(msg) < 1700 in log_worker
StartFixedLen == 38   \* "Starting statistics recalculation on " and "."
EndFixedLen == 64     \* "Finished statistics recalculation on ", ". " and
                      \* " messages were processed."
MentionLen == 22      \* channel.mention: "<#", the digits of the id, ">"

----------------------------------------------------------------------------
(* The guild: one text channel C and one thread T whose parent is C.       *)

Channels == {"C", "T"}
NoThread == "null"
NoChannel == "null"
NoMonth == -1
NoTime == -1
NoRow == [id |-> 0]
NoTask == [id |-> 0]
NoHolder == <<"none", 0>>

IsThread(ch) == ch = "T"
\* mutant: a thread named as its own channel
ParentIsSelf(ch) == ch

\* channel.parent of a thread
Parent(ch) == IF ch = "T" THEN "C" ELSE NoChannel
GuildOf(ch) == "G"
\* Thread.is_private() of T, and whether @everyone lacks view_channel on C
ThreadIsPrivate(ch) == FALSE
EveryoneCannotView(ch) == ch = "C"

Authors == {"u", "b"}
IsBot(a) == a = "b"

----------------------------------------------------------------------------
(* Message text.  A content is the list of its whitespace-separated        *)
(* tokens, joined by single blanks; TokLen is the length of a token and    *)
(* IsUrl says whether URL_REGEX (https?://\S{2,}) matches inside it.       *)

TokLen(t) ==
    CASE t = "hello" -> 5
      [] t = "world" -> 5
      [] t = "see" -> 3
      [] t = "http://ab" -> 9
      [] t = "http://a" -> 8

IsUrl(t) == t = "http://ab"

RECURSIVE SumTokLen(_)
SumTokLen(content) ==
    IF content = <<>> THEN 0
    ELSE TokLen(Head(content)) + SumTokLen(Tail(content))

WordCount(content) == Len(content)

CharCount(content) ==
    IF content = <<>> THEN 0 ELSE SumTokLen(content) + (Len(content) - 1)

LinkCount(content) == Cardinality({i \in 1..Len(content) : IsUrl(content[i])})

RECURSIVE EmbedChars(_)
EmbedChars(embeds) ==
    IF embeds = <<>> THEN 0
    ELSE Head(embeds).len + EmbedChars(Tail(embeds))

EmbedLinks(embeds) == Cardinality({i \in 1..Len(embeds) : embeds[i].url})

(* The message bodies the model posts. *)
KHello == [content |-> <<"hello", "world">>, attachments |-> 0, embeds |-> <<>>]
KLink == [content |-> <<"see", "http://ab">>, attachments |-> 1,
          embeds |-> <<[len |-> 7, url |-> TRUE]>>]
KShort == [content |-> <<"http://a">>, attachments |-> 0,
           embeds |-> <<[len |-> 4, url |-> FALSE]>>]

Kinds == {KHello, KLink, KShort}

----------------------------------------------------------------------------
(* get_month_bucket_from_message: the instant in New York local time,      *)
(* truncated to the first day of its month.  Instants are already local;   *)
(* a bucket is the number of the month.                                    *)

Instants == 0..MaxTime
MonthOf(t) == t \div TicksPerMonth
MonthStart(m) == m * TicksPerMonth
get_month_bucket_from_message(msg) == MonthOf(msg.created)

(* is_private (view/shared.py) and is_private_thread (shared.py); an       *)
(* Optional[bool] is the empty set (None) or a singleton.                  *)
None == {}
Some(x) == {x}

is_private(ch) ==
    IF IsThread(ch) THEN ThreadIsPrivate(ch) \/ EveryoneCannotView(Parent(ch))
    ELSE EveryoneCannotView(ch)

is_private_thread(ch) == IF IsThread(ch) THEN Some(ThreadIsPrivate(ch)) ELSE None

----------------------------------------------------------------------------
VARIABLES
    now,            \* the clock (Discord timestamps, auto_now of the table)
    history,        \* channel -> its messages, oldest first
    nmsgs,          \* number of messages posted so far
    hpc,            \* message id -> position of its on_message call
    hexisting,      \* message id -> `existing` of its on_message call
    store,          \* the Statistic table: a set of rows with distinct ids
    nextId,         \* next value of the id sequence of the table
    locks,          \* Statistics.locks: channel id -> [holder, waiters]
    queue,          \* StatisticsRecalculate.queue
    enqueued,       \* every task put on the queue so far; its id is its index
    getters,        \* workers suspended in queue.get(), in arrival order
    wpc,            \* worker -> position of its loop
    wl,             \* worker -> locals of worker / recalculate_channel
    active,         \* TRUE between cog_load and cog_unload
    nloads,         \* number of cog_load calls so far
    log_channel,    \* bot.get_channel(RECALCULATION_LOG_CHANNEL) is not None
    message_tasks,  \* StatisticsRecalculate.message_tasks
    dequeued,       \* ghost: ids of the tasks handed out by queue.get()
    failed,         \* ghost: ids of the tasks whose recalculation raised
    finished,       \* ghost: ids of the tasks whose recalculation returned
    workers,        \* StatisticsRecalculate.workers: the asyncio tasks created
    lpc,            \* position of the newest log_worker
    lmsg,           \* `msg` of log_worker: the notices joined so far
    posted,         \* ghost: every notice put on message_tasks, in order
    outgoing,       \* ghost: the notices handed to send(), in order
    cmd,            \* the /recalculate channel commands run so far
    reply           \* the last answer of a /statistics query

vars == <<now, history, nmsgs, hpc, hexisting, store, nextId, locks, queue,
          enqueued, getters, wpc, wl, active, nloads, log_channel,
          message_tasks, dequeued, failed, finished, workers, lpc, lmsg,
          posted, outgoing, cmd, reply>>

liveVars == <<history, nmsgs, hpc, hexisting>>
poolVars == <<queue, enqueued, getters, wpc, wl, active, nloads,
              message_tasks, dequeued, failed, finished>>
logVars == <<lpc, lmsg, posted, outgoing>>
opsVars == <<workers, lpc, lmsg, posted, outgoing, cmd, reply>>

MsgIds == 1..MaxMsgs
Workers == 1..NumWorkers
H(m) == <<"h", m>>
W(w) == <<"w", w>>

----------------------------------------------------------------------------
(* asyncio.Lock, as used through `async with self.locks[key]`.             *)

\* mutant: acquire() that never waits
AcquireNoWait(lk, who) == [holder |-> who, waiters |-> lk.waiters]

\* Lock.acquire: taken at once when free and nobody waits, else queue up
Acquire(lk, who) ==
    IF lk.holder = NoHolder /\ lk.waiters = <<>>
    THEN [holder |-> who, waiters |-> <<>>]
    ELSE [holder |-> lk.holder, waiters |-> Append(lk.waiters, who)]

\* mutant: a release that leaves the lock with its holder
ReleaseNothing(lk) == lk

\* Lock.release: the first waiter is woken and becomes the holder
Release(lk) ==
    IF lk.waiters = <<>>
    THEN [holder |-> NoHolder, waiters |-> <<>>]
    ELSE [holder |-> Head(lk.waiters), waiters |-> Tail(lk.waiters)]

----------------------------------------------------------------------------
(* The Statistic table (models/statistic.py) and the Tortoise calls used.  *)

\* Statistic(...) as written by create / bulk_create; auto_now stamps it
Statistic(id, guild, channel, thread, author, month, unit, bot, private, t) ==
    [id |-> id, guild_id |-> guild, channel_id |-> channel,
     thread_id |-> thread, author_id |-> author, month |-> month,
     messages |-> unit.messages, num_words |-> unit.words,
     num_characters |-> unit.characters,
     num_attachments |-> unit.attachments, num_links |-> unit.links,
     is_bot |-> bot, is_private |-> private, last_updated |-> t]

\* Statistic.filter(**kw): every keyword is an equality test; a keyword the
\* caller leaves out tests nothing; month=None is `month IS NULL`, which no
\* row satisfies because the column is not nullable (NoMonth is no month).
FilterMatch(r, kw) ==
    \A f \in DOMAIN kw : r[f] = kw[f]

Filter(rows, kw) == {r \in rows : FilterMatch(r, kw)}

\* mutant: the lookup never finds the row
FirstFindsNothing(rows) == NoRow

\* QuerySet.first(): the match with the smallest primary key, or None
First(rows) ==
    IF rows = {} THEN NoRow
    ELSE CHOOSE r \in rows : \A r2 \in rows : r.id <= r2.id

\* order_by("-last_updated").first()
Latest(rows) ==
    IF rows = {} THEN NoRow
    ELSE CHOOSE r \in rows : \A r2 \in rows :
            \/ r.last_updated > r2.last_updated
            \/ r.last_updated = r2.last_updated /\ r.id <= r2.id

\* Model.save() of a fetched object: UPDATE ... WHERE id = pk
Save(rows, obj) ==
    {IF r.id = obj.id THEN obj ELSE r : r \in rows}

RowKey(r) == <<r.channel_id, r.thread_id, r.author_id, r.month>>

----------------------------------------------------------------------------
(* Live ingest: Statistics.on_message                                      *)

AllMsgs == UNION {{history[c][i] : i \in 1..Len(history[c])} : c \in Channels}
Msg(m) == CHOOSE x \in AllMsgs : x.id = m

\* mutant: the embeds are counted for every author
DeltaEmbedsAlways(msg) ==
    [messages |-> 1,
     words |-> WordCount(msg.kind.content),
     characters |-> CharCount(msg.kind.content) + EmbedChars(msg.kind.embeds),
     attachments |-> msg.kind.attachments,
     links |-> LinkCount(msg.kind.content) + EmbedLinks(msg.kind.embeds)]

\* lines 31-41: what one message contributes
Delta(msg) ==
    [messages |-> 1,
     words |-> WordCount(msg.kind.content),
     characters |-> CharCount(msg.kind.content)
                    + (IF IsBot(msg.author) THEN EmbedChars(msg.kind.embeds) ELSE 0),
     attachments |-> msg.kind.attachments,
     links |-> LinkCount(msg.kind.content)
               + (IF IsBot(msg.author) THEN EmbedLinks(msg.kind.embeds) ELSE 0)]

\* lines 64-69 / 85-90: existing.x += ...; the save stamps last_updated
DeltaAdd(row, d, t) ==
    [row EXCEPT !.messages = @ + 1, !.num_words = @ + d.words,
                !.num_characters = @ + d.characters,
                !.num_attachments = @ + d.attachments,
                !.num_links = @ + d.links, !.last_updated = t]

\* the keyword arguments of the lookup (lines 43-49, 71)
LookupKw(msg) ==
    IF IsThread(msg.channel)
    THEN [thread_id |-> msg.channel, author_id |-> msg.author,
          month |-> get_month_bucket_from_message(msg),
          guild_id |-> GuildOf(msg.channel)]
    ELSE [channel_id |-> msg.channel, thread_id |-> NoThread,
          author_id |-> msg.author,
          month |-> get_month_bucket_from_message(msg),
          guild_id |-> GuildOf(msg.channel)]

\* lines 51-62 / 73-83: the row created for the first message of a bucket
CreatedRow(msg, id, t) ==
    IF IsThread(msg.channel)
    THEN Statistic(id, GuildOf(msg.channel), Parent(msg.channel), msg.channel,
                   msg.author, get_month_bucket_from_message(msg), Delta(msg),
                   IsBot(msg.author), Some(is_private(msg.channel)), t)
    ELSE Statistic(id, GuildOf(msg.channel), msg.channel, NoThread,
                   msg.author, get_month_bucket_from_message(msg), Delta(msg),
                   IsBot(msg.author), None, t)

\* A message is posted in channel c at instant t (the clock moves on to t):
\* it joins the history of c and the gateway dispatches on_message for it.
Send(c, a, k, t) ==
    /\ nmsgs < MaxMsgs
    /\ t >= now
    /\ now' = t
    /\ LET m == [id |-> nmsgs + 1, channel |-> c, author |-> a, kind |-> k,
                 created |-> t]
       IN /\ history' = [history EXCEPT ![c] = Append(@, m)]
          /\ hpc' = [hpc EXCEPT ![m.id] = "new"]
    /\ nmsgs' = nmsgs + 1
    /\ UNCHANGED <<hexisting, store, nextId, locks, log_channel>>
    /\ UNCHANGED poolVars
    /\ UNCHANGED opsVars

\* on_message starts: async with self.locks[message.channel.id]
OnMessageStart(m) ==
    /\ hpc[m] = "new"
    /\ locks' = [locks EXCEPT ![Msg(m).channel] = Acquire(@, H(m))]
    /\ hpc' = [hpc EXCEPT ![m] = "lock"]
    /\ UNCHANGED <<now, history, nmsgs, hexisting, store, nextId, log_channel>>
    /\ UNCHANGED poolVars
    /\ UNCHANGED opsVars

\* holding the lock: existing = await Statistic.filter(...).first()
OnMessageLookup(m) ==
    /\ hpc[m] = "lock"
    /\ locks[Msg(m).channel].holder = H(m)
    /\ hexisting' = [hexisting EXCEPT ![m] = First(Filter(store, LookupKw(Msg(m))))]
    /\ hpc' = [hpc EXCEPT ![m] = "write"]
    /\ UNCHANGED <<now, history, nmsgs, store, nextId, locks, log_channel>>
    /\ UNCHANGED poolVars
    /\ UNCHANGED opsVars

\* await Statistic.create(...) or await existing.save(); the lock is released
OnMessageWrite(m) ==
    /\ hpc[m] = "write"
    /\ IF hexisting[m] = NoRow
       THEN /\ store' = store \cup {CreatedRow(Msg(m), nextId, now)}
            /\ nextId' = nextId + 1
       ELSE /\ store' = Save(store, DeltaAdd(hexisting[m], Delta(Msg(m)), now))
            /\ nextId' = nextId
    /\ locks' = [locks EXCEPT ![Msg(m).channel] = Release(@)]
    /\ hpc' = [hpc EXCEPT ![m] = "done"]
    /\ hexisting' = [hexisting EXCEPT ![m] = NoRow]
    /\ UNCHANGED <<now, history, nmsgs, log_channel>>
    /\ UNCHANGED poolVars
    /\ UNCHANGED opsVars

----------------------------------------------------------------------------
(* Recalculation: StatisticsRecalculate.recalculate_channel                *)

\* what a reader of the table sees of a set of rows: keys, counts and flags
Visible(r) == [channel_id |-> r.channel_id, thread_id |-> r.thread_id,
               author_id |-> r.author_id, month |-> r.month,
               messages |-> r.messages, num_words |-> r.num_words,
               num_characters |-> r.num_characters,
               num_attachments |-> r.num_attachments,
               num_links |-> r.num_links, is_bot |-> r.is_bot,
               is_private |-> r.is_private]
Snapshot(rows) == [rows |-> {Visible(r) : r \in rows}, n |-> Cardinality(rows)]

\* the locals of a worker; `had` and `before` are ghosts: the latest row of
\* the target at the since_last query, and the rows of the target when the
\* scan began
NoSnapshot == [rows |-> {}, n |-> -1]
IdleWorker == [task |-> NoTask, kw |-> <<>>, after |-> NoTime, buf |-> <<>>,
               stat_count |-> <<>>, total_msgs |-> 0, had |-> NoRow,
               before |-> NoSnapshot]

\* lines 71-80: the filter keywords; a thread task names the thread and its
\* parent, a channel task names only the channel (no thread_id keyword)
Kwargs(ch) ==
    IF IsThread(ch)
    THEN [guild_id |-> GuildOf(ch), month |-> NoMonth, thread_id |-> ch,
          channel_id |-> Parent(ch)]
    ELSE [guild_id |-> GuildOf(ch), month |-> NoMonth, channel_id |-> ch]

\* the rows that belong to the target itself
TargetThread(ch) == IF IsThread(ch) THEN ch ELSE NoThread
TargetChannel(ch) == IF IsThread(ch) THEN Parent(ch) ELSE ch
TargetRows(rows, ch) ==
    {r \in rows : r.channel_id = TargetChannel(ch) /\ r.thread_id = TargetThread(ch)}

\* lines 82-87: the lower bound of an incremental scan
AfterOf(last_stat) ==
    IF last_stat = NoRow THEN NoTime
    ELSE MonthStart(MonthOf(last_stat.last_updated))

RECURSIVE Reverse(_)
Reverse(s) == IF s = <<>> THEN <<>> ELSE Append(Reverse(Tail(s)), Head(s))

\* channel.history(limit=None, after=after): without a lower bound discord.py
\* yields newest first, with one it yields the later messages oldest first
History(h, after) ==
    IF after = NoTime THEN Reverse(h)
    ELSE SelectSeq(h, LAMBDA x : x.created > after)

Unit0 == [messages |-> 0, words |-> 0, characters |-> 0, attachments |-> 0,
          links |-> 0]

\* lines 113-125: one message added to the tallies of its author
AddToUnit(unit, msg) ==
    [messages |-> unit.messages + 1,
     words |-> unit.words + WordCount(msg.kind.content),
     characters |-> unit.characters + CharCount(msg.kind.content)
                    + (IF IsBot(msg.author) THEN EmbedChars(msg.kind.embeds) ELSE 0),
     attachments |-> unit.attachments + msg.kind.attachments,
     links |-> LinkCount(msg.kind.content)
               + (IF IsBot(msg.author) THEN EmbedLinks(msg.kind.embeds) ELSE 0)]

\* stat_count[message.author]: a dict in insertion order
AddToStatCount(sc, msg) ==
    IF \E i \in 1..Len(sc) : sc[i].author = msg.author
    THEN [i \in 1..Len(sc) |->
            IF sc[i].author = msg.author
            THEN [author |-> msg.author, unit |-> AddToUnit(sc[i].unit, msg)]
            ELSE sc[i]]
    ELSE Append(sc, [author |-> msg.author, unit |-> AddToUnit(Unit0, msg)])

\* lines 90-93, 113-126: the loop body up to the next month boundary; it
\* stops in front of the first message of another month, or at the end
\* mutant: the end of the history is counted as one more message
RECURSIVE ConsumeOneMore(_, _, _, _)
ConsumeOneMore(buf, month, sc, total) ==
    IF buf = <<>> THEN [buf |-> buf, month |-> month, stat_count |-> sc,
                        total_msgs |-> total + 1]
    ELSE IF month /= NoMonth /\ month /= get_month_bucket_from_message(Head(buf))
    THEN [buf |-> buf, month |-> month, stat_count |-> sc, total_msgs |-> total]
    ELSE ConsumeOneMore(Tail(buf), get_month_bucket_from_message(Head(buf)),
                        AddToStatCount(sc, Head(buf)), total + 1)

RECURSIVE Consume(_, _, _, _)
Consume(buf, month, sc, total) ==
    IF buf = <<>> THEN [buf |-> buf, month |-> month, stat_count |-> sc,
                        total_msgs |-> total]
    ELSE IF month /= NoMonth /\ month /= get_month_bucket_from_message(Head(buf))
    THEN [buf |-> buf, month |-> month, stat_count |-> sc, total_msgs |-> total]
    ELSE Consume(Tail(buf), get_month_bucket_from_message(Head(buf)),
                 AddToStatCount(sc, Head(buf)), total + 1)

\* mutant: the flush deletes nothing
FlushDeleteNothing(rows, kw) == rows

\* lines 94, 128: await Statistic.filter(**kwargs).delete()
FlushDelete(rows, kw) == rows \ Filter(rows, kw)

\* lines 95-110, 129-144: the rows of bulk_create, ids in dict order
FlushRows(ch, kw, sc, id0, t) ==
    {Statistic(id0 + i - 1, kw.guild_id, kw.channel_id,
               IF "thread_id" \in DOMAIN kw THEN kw.thread_id ELSE NoThread,
               sc[i].author, kw.month, sc[i].unit, IsBot(sc[i].author),
               is_private_thread(ch), t) : i \in 1..Len(sc)}

----------------------------------------------------------------------------
(* The work queue and the pool: worker, start_workers, stop_workers        *)

\* mutant: a queue that hands out the newest item first
PutFront(q, item) == <<item>> \o q

\* Queue.put_nowait of an unbounded asyncio.Queue: the item joins the tail
Put(q, item) == Append(q, item)

\* send_start_message / send_end_message: nothing without the log channel
PutMessage(q, msg) == IF log_channel THEN Put(q, msg) ELSE q

\* mutant: a notification queue of one slot, whose put waits for room
FullAtOne(q) == Len(q) < 1

\* message_tasks = Queue(): no maxsize, put_nowait always has room
NotFull(q) == TRUE

\* the notices that a step has put on message_tasks: q1 is q0 with notices
\* added at the tail
NewNotices(q0, q1) == SubSeq(q1, Len(q0) + 1, Len(q1))

\* Queue.put_nowait wakes the getter: a log_worker suspended in
\* message_tasks.get() becomes ready to run
Wake(pc, q0, q1) == IF pc = "wait" /\ Len(q1) > Len(q0) THEN "get" ELSE pc

\* mutant: cancel() that has no effect on the task
CancelSwallowed(t) == t

\* Task.cancel(): the coroutine ends at the await it is suspended in
Cancel(t) == [t EXCEPT !.alive = FALSE]

\* create_task(self.worker()) five times, then create_task(self.log_worker())
NewTasks ==
    [i \in 1..(NumWorkers + 1) |->
        [kind |-> IF i <= NumWorkers THEN "worker" ELSE "log", alive |-> TRUE]]

\* mutant: a failed task is put back on the queue
RequeueOnException(q, task) == Append(q, task)

\* lines 256-257: except Exception: print_exception(e); the task is gone
OnException(q, task) == q

\* mutant: an exception ends the worker
DieOnException(pc) == "dead"

\* lines 248, 256-257: the except clause is inside `while True`
AfterException(pc) == "get"

\* queue.put_nowait(RecalculateTask(channel, since_last)) by an operator
\* command (line 166); the first waiting getter is woken
Enqueue(c, sl, max) ==
    /\ Len(enqueued) < max
    /\ LET task == [id |-> Len(enqueued) + 1, channel |-> c, since_last |-> sl]
       IN /\ queue' = Put(queue, task)
          /\ enqueued' = Append(enqueued, task)
    /\ IF getters /= <<>>
       THEN /\ wpc' = [wpc EXCEPT ![Head(getters)] = "get"]
            /\ getters' = Tail(getters)
       ELSE UNCHANGED <<wpc, getters>>
    /\ UNCHANGED <<now, store, nextId, locks, log_channel, wl, active, nloads,
                   message_tasks, dequeued, failed, finished>>
    /\ UNCHANGED liveVars
    /\ UNCHANGED opsVars

(* The guilds as the commands see them.  Guild G lists the category K, the
   text channels N (the bot lacks view_channel), C (thread T), M (the bot
   lacks read_message_history) and D, the forum F and the voice channel V;
   guild H lists the text channel E, where the bot has manage_threads.  *)

\* bot.guilds
Guilds == <<"G", "H">>

\* guild.channels, in the order of the list; bot.get_guild of an id the
\* bot does not know gives None
GuildChannels(g) ==
    IF g = "G" THEN <<"K", "N", "C", "M", "D", "F", "V">>
    ELSE IF g = "H" THEN <<"E">>
    ELSE <<>>

\* the class of a channel object, as the isinstance tests see it
Kind(ch) ==
    IF ch = "K" THEN "category"
    ELSE IF ch \in {"N", "C", "M", "D", "E"} THEN "text"
    ELSE IF ch = "F" THEN "forum"
    ELSE IF ch = "V" THEN "voice"
    ELSE "thread"

\* channel.threads: the threads of the channel that are not archived
Threads(ch) ==
    IF ch = "C" THEN <<"T">>
    ELSE IF ch = "N" THEN <<"NT">>
    ELSE IF ch = "M" THEN <<"MT">>
    ELSE IF ch = "D" THEN <<"DT">>
    ELSE IF ch = "F" THEN <<"FT">>
    ELSE <<>>

\* channel.archived_threads(limit=None, private=..., joined=...): the public
\* archived threads, or the private ones (only those the bot has joined
\* when joined is set); DQ and EQ are private threads the bot has not joined
ArchivedThreads(ch, private, joined) ==
    IF ch = "D" THEN (IF ~private THEN <<"DA">>
                      ELSE IF joined THEN <<"DP">> ELSE <<"DP", "DQ">>)
    ELSE IF ch = "E" THEN (IF ~private THEN <<>>
                           ELSE IF joined THEN <<"EP">> ELSE <<"EP", "EQ">>)
    ELSE IF ch = "F" THEN (IF ~private THEN <<"FA">> ELSE <<>>)
    ELSE <<>>

\* the channel whose overwrites decide the permissions: a thread takes the
\* permissions of its parent
PermissionBase(ch) ==
    IF ch \in {"NT"} THEN "N"
    ELSE IF ch \in {"MT"} THEN "M"
    ELSE IF ch \in {"T"} THEN "C"
    ELSE IF ch \in {"DT", "DA", "DP", "DQ"} THEN "D"
    ELSE IF ch \in {"FT", "FA"} THEN "F"
    ELSE IF ch \in {"EP", "EQ"} THEN "E"
    ELSE ch

\* channel.permissions_for(channel.guild.me)
PermissionsFor(ch) ==
    [view_channel |-> PermissionBase(ch) /= "N",
     read_message_history |-> PermissionBase(ch) /= "M",
     manage_threads |-> PermissionBase(ch) = "E"]

\* mutant: a channel the bot can see is taken to be readable
ReadableIfVisible(ch) == PermissionsFor(ch).view_channel

\* lines 155-157: perms.view_channel and perms.read_message_history
Readable(ch) ==
    PermissionsFor(ch).view_channel /\ PermissionsFor(ch).read_message_history

\* mutant: threads are included only as the caller asked
IncludeThreadsAsAsked(ch, include_threads) == include_threads

\* lines 158-162: a forum always includes its threads, a voice channel never
IncludeThreads(ch, include_threads) ==
    IF Kind(ch) = "forum" THEN TRUE
    ELSE IF Kind(ch) = "voice" THEN FALSE
    ELSE include_threads

\* lines 158-166: a forum is never queued itself; any other channel is
\* unless only_threads
QueuesItself(ch, only_threads) ==
    Kind(ch) /= "forum" /\ ~only_threads

\* lines 167-179: the threads of a text channel (active, archived public,
\* archived private) or of a forum (active, archived), in the order queued
ThreadsQueued(ch) ==
    IF Kind(ch) = "text"
    THEN Threads(ch) \o ArchivedThreads(ch, FALSE, FALSE)
         \o ArchivedThreads(ch, TRUE, ~PermissionsFor(ch).manage_threads)
    ELSE IF Kind(ch) = "forum"
    THEN Threads(ch) \o ArchivedThreads(ch, FALSE, FALSE)
    ELSE <<>>

\* mutant: only_threads is not looked at
QueuedTargetsItselfToo(ch, include_threads, only_threads) ==
    IF ~Readable(ch) THEN <<>>
    ELSE (IF Kind(ch) /= "forum" THEN <<ch>> ELSE <<>>)
         \o (IF IncludeThreads(ch, include_threads) THEN ThreadsQueued(ch)
             ELSE <<>>)

\* queue_channel_and_threads (lines 147-179): the targets of the tasks it
\* puts, in order; nothing for a channel the bot cannot read, nothing for
\* a voice channel asked for its threads only
QueuedTargets(ch, include_threads, only_threads) ==
    IF ~Readable(ch) THEN <<>>
    ELSE IF Kind(ch) = "voice" /\ only_threads THEN <<>>
    ELSE (IF QueuesItself(ch, only_threads) THEN <<ch>> ELSE <<>>)
         \o (IF IncludeThreads(ch, include_threads) THEN ThreadsQueued(ch)
             ELSE <<>>)

\* lines 221-224, 242-245: for channel in guild.channels, categories skipped
RECURSIVE QueuedOfChannels(_, _, _)
QueuedOfChannels(chs, include_threads, only_threads) ==
    IF chs = <<>> THEN <<>>
    ELSE (IF Kind(Head(chs)) = "category" THEN <<>>
          ELSE QueuedTargets(Head(chs), include_threads, only_threads))
         \o QueuedOfChannels(Tail(chs), include_threads, only_threads)

\* line 241: for guild in bot.guilds
RECURSIVE QueuedOfGuilds(_, _, _)
QueuedOfGuilds(gs, include_threads, only_threads) ==
    IF gs = <<>> THEN <<>>
    ELSE QueuedOfChannels(GuildChannels(Head(gs)), include_threads, only_threads)
         \o QueuedOfGuilds(Tail(gs), include_threads, only_threads)

\* the targets a command queues after its response
CommandTargets(c) ==
    IF c.scope = "channel"
    THEN QueuedTargets(c.channel, c.include_threads, c.only_threads)
    ELSE IF c.scope = "guild"
    THEN QueuedOfChannels(GuildChannels(c.channel), c.include_threads,
                          c.only_threads)
    ELSE QueuedOfGuilds(Guilds, c.include_threads, c.only_threads)

\* mutant: every task is a full recalculation
RecalculateTaskFull(id, ch, sl) ==
    [id |-> id, channel |-> ch, since_last |-> FALSE]

\* RecalculateTask(channel, since_last=since_last); id is its place among
\* the tasks ever put
RecalculateTask(id, ch, sl) ==
    [id |-> id, channel |-> ch, since_last |-> sl]

\* a command by the owner gets as far as its response: req joins the
\* commands, one at a time
Respond(req) ==
    /\ \A k \in 1..Len(cmd) : cmd[k].state /= "answered"
    /\ cmd' = Append(cmd, req)
    /\ UNCHANGED <<now, store, nextId, locks, log_channel, workers, lpc, lmsg,
                   posted, outgoing, reply>>
    /\ UNCHANGED poolVars
    /\ UNCHANGED liveVars

\* /recalculate channel by the owner, lines 190-199: only_threads implies
\* include_threads, and the response "Queued recalculation" is sent
ChannelCommand(c, it, ot, sl, maxCmds) ==
    /\ Len(cmd) < maxCmds
    /\ Respond([scope |-> "channel", channel |-> c,
                include_threads |-> it \/ ot, only_threads |-> ot,
                since_last |-> sl, state |-> "answered", first |-> 0,
                last |-> 0])

\* the same while the channels are quiet: at most MaxPoolTasks tasks
CommandAck(c, it, ot, sl) ==
    /\ Len(enqueued) + Len(QueuedTargets(c, it \/ ot, ot)) <= MaxPoolTasks
    /\ ChannelCommand(c, it, ot, sl, MaxPoolTasks)

\* /recalculate guild by the owner, lines 211-220: an unknown guild id is
\* answered "Guild not found." and nothing more happens; otherwise the
\* response "Queued recalculation" is sent
GuildCommand(g, it, ot, sl, maxCmds) ==
    /\ Len(cmd) < maxCmds
    /\ Respond([scope |-> "guild", channel |-> g, include_threads |-> it,
                only_threads |-> ot, since_last |-> sl,
                state |-> IF \E i \in 1..Len(Guilds) : Guilds[i] = g
                          THEN "answered" ELSE "notfound",
                first |-> 0, last |-> 0])

\* /recalculate global by the owner, lines 234-240
GlobalCommand(it, ot, sl, maxCmds) ==
    /\ Len(cmd) < maxCmds
    /\ Respond([scope |-> "global", channel |-> NoChannel,
                include_threads |-> it, only_threads |-> ot,
                since_last |-> sl, state |-> "answered", first |-> 0,
                last |-> 0])

\* lines 200, 221-224, 241-245: queue_channel_and_threads puts the tasks,
\* each put waking the first waiting getter, and the command returns
CommandQueue ==
    /\ cmd /= <<>>
    /\ cmd[Len(cmd)].state = "answered"
    /\ LET c == cmd[Len(cmd)]
           targets == CommandTargets(c)
           tasks == [i \in 1..Len(targets) |->
                       RecalculateTask(Len(enqueued) + i, targets[i],
                                       c.since_last)]
           woken == IF Len(getters) < Len(tasks) THEN Len(getters) ELSE Len(tasks)
       IN /\ queue' = queue \o tasks
          /\ enqueued' = enqueued \o tasks
          /\ wpc' = [w \in Workers |->
                       IF \E i \in 1..woken : getters[i] = w THEN "get" ELSE wpc[w]]
          /\ getters' = SubSeq(getters, woken + 1, Len(getters))
          /\ cmd' = [cmd EXCEPT ![Len(cmd)] =
                        [c EXCEPT !.state = "queued", !.first = Len(enqueued) + 1,
                                  !.last = Len(enqueued) + Len(tasks)]]
    /\ UNCHANGED <<now, store, nextId, locks, log_channel, wl, active, nloads,
                   message_tasks, dequeued, failed, finished>>
    /\ UNCHANGED <<workers, lpc, lmsg, posted, outgoing, reply>>
    /\ UNCHANGED liveVars

\* cog_load -> start_workers: five worker tasks are created and run, in
\* order, up to their first suspension: as many as there are queued tasks
\* find the queue non-empty, the others wait in queue.get(); the log_worker
\* task is created last and is ready to run
Load ==
    /\ ~active
    /\ nloads < MaxLoads
    /\ active' = TRUE
    /\ nloads' = nloads + 1
    /\ wpc' = [w \in Workers |-> IF w <= Len(queue) THEN "get" ELSE "wait"]
    /\ getters' = [i \in 1..(IF Len(queue) >= NumWorkers THEN 0
                                ELSE NumWorkers - Len(queue)) |-> Len(queue) + i]
    /\ wl' = [w \in Workers |-> IdleWorker]
    /\ workers' = workers \o NewTasks
    /\ lpc' = "get"
    /\ lmsg' = <<>>
    /\ UNCHANGED <<now, store, nextId, locks, log_channel, queue, enqueued,
                   message_tasks, dequeued, failed, finished, posted, outgoing,
                   cmd, reply>>
    /\ UNCHANGED liveVars

IsWorker(who) == who[1] = "w"

\* mutant: a cancelled worker keeps the lock it holds or waits for
CancelKeepsLocks(lk) == lk

\* a cancelled worker leaves the lock it holds or waits for
CancelWorkers(lk) ==
    LET ws == SelectSeq(lk.waiters, LAMBDA x : ~IsWorker(x))
    IN IF IsWorker(lk.holder)
       THEN Release([holder |-> lk.holder, waiters |-> ws])
       ELSE [holder |-> lk.holder, waiters |-> ws]

\* cog_unload -> stop_workers: every task of the list is cancelled at the
\* await it is suspended in; the call it was waiting for is cancelled with
\* it, and the notices the log_worker had joined are gone with its locals
Unload ==
    /\ active
    /\ active' = FALSE
    /\ wpc' = [w \in Workers |-> "dead"]
    /\ wl' = [w \in Workers |-> IdleWorker]
    /\ getters' = <<>>
    /\ locks' = [c \in Channels |-> CancelWorkers(locks[c])]
    /\ workers' = [i \in 1..Len(workers) |-> Cancel(workers[i])]
    /\ lpc' = "dead"
    /\ lmsg' = <<>>
    /\ UNCHANGED <<now, store, nextId, log_channel, queue, enqueued, nloads,
                   message_tasks, dequeued, failed, finished, posted, outgoing,
                   cmd, reply>>
    /\ UNCHANGED liveVars

\* The top of `while True`: task = await self.queue.get() suspends when the
\* queue q is empty; otherwise it hands over the head at once and the worker
\* sends the start notice and runs recalculate_channel up to its first
\* await (the since_last query, or the lock when it is not free).
Loop(w, q, mt, lk) ==
    /\ IF q = <<>>
       THEN /\ queue' = q
            /\ wpc' = [wpc EXCEPT ![w] = "wait"]
            /\ getters' = Append(getters, w)
            /\ wl' = [wl EXCEPT ![w] = IdleWorker]
            /\ message_tasks' = mt
            /\ locks' = lk
            /\ UNCHANGED dequeued
       ELSE LET task == Head(q)
            IN /\ NotFull(mt)
               /\ queue' = Tail(q)
               /\ dequeued' = Append(dequeued, task.id)
               /\ message_tasks' = PutMessage(mt, [kind |-> "start",
                                                   channel |-> task.channel])
               /\ wl' = [wl EXCEPT ![w] = [IdleWorker EXCEPT !.task = task,
                                              !.kw = Kwargs(task.channel)]]
               /\ IF task.since_last
                  THEN /\ wpc' = [wpc EXCEPT ![w] = "query"]
                       /\ locks' = lk
                  ELSE /\ wpc' = [wpc EXCEPT ![w] = "lock"]
                       /\ locks' = [lk EXCEPT ![task.channel] = Acquire(@, W(w))]
               /\ UNCHANGED getters
    /\ posted' = posted \o NewNotices(message_tasks, message_tasks')
    /\ lpc' = Wake(lpc, message_tasks, message_tasks')
    /\ UNCHANGED <<workers, lmsg, outgoing, cmd, reply>>

\* a worker woken by put_nowait (or just started) runs queue.get()
WorkerGet(w) ==
    /\ wpc[w] = "get"
    /\ Loop(w, queue, message_tasks, locks)
    /\ UNCHANGED <<now, store, nextId, log_channel, enqueued, active, nloads,
                   failed, finished>>
    /\ UNCHANGED liveVars

\* lines 83-89: the since_last query answers; then the lock is requested
WorkerQuery(w) ==
    /\ wpc[w] = "query"
    /\ wl' = [wl EXCEPT ![w].after = AfterOf(Latest(Filter(store, wl[w].kw))),
                        ![w].had = Latest(TargetRows(store, wl[w].task.channel))]
    /\ locks' = [locks EXCEPT ![wl[w].task.channel] = Acquire(@, W(w))]
    /\ wpc' = [wpc EXCEPT ![w] = "lock"]
    /\ UNCHANGED <<now, store, nextId, log_channel, queue, enqueued, getters,
                   active, nloads, message_tasks, dequeued, failed, finished>>
    /\ UNCHANGED liveVars
    /\ UNCHANGED opsVars

\* mutant: the finish notice is sent with a count of zero
ReturnUncounted(w, total) ==
    /\ NotFull(message_tasks)
    /\ finished' = finished \cup {wl[w].task.id}
    /\ Loop(w, queue,
            PutMessage(message_tasks, [kind |-> "end",
                                       channel |-> wl[w].task.channel,
                                       count |-> 0]),
            [locks EXCEPT ![wl[w].task.channel] = Release(@)])

\* recalculate_channel returns: the lock is released, the end notice is
\* sent, task_done, and the loop starts over
Return(w, total) ==
    /\ NotFull(message_tasks)
    /\ finished' = finished \cup {wl[w].task.id}
    /\ Loop(w, queue,
            PutMessage(message_tasks, [kind |-> "end",
                                       channel |-> wl[w].task.channel,
                                       count |-> total]),
            [locks EXCEPT ![wl[w].task.channel] = Release(@)])

\* the loop goes on to the next flush
Continue(w, r, before) ==
    /\ wl' = [wl EXCEPT ![w].buf = r.buf, ![w].kw.month = r.month,
                        ![w].stat_count = r.stat_count,
                        ![w].total_msgs = r.total_msgs,
                        ![w].before = before]
    /\ wpc' = [wpc EXCEPT ![w] = "delete"]
    /\ UNCHANGED <<locks, message_tasks, finished, queue, getters, dequeued>>
    /\ UNCHANGED opsVars

\* holding the lock: the history arrives and is tallied up to the first
\* flush; an empty history returns at once
WorkerFetch(w) ==
    /\ wpc[w] = "lock"
    /\ locks[wl[w].task.channel].holder = W(w)
    /\ LET r == Consume(History(history[wl[w].task.channel], wl[w].after),
                        NoMonth, <<>>, 0)
       IN IF r.stat_count = <<>> THEN Return(w, r.total_msgs)
          ELSE Continue(w, r, Snapshot(TargetRows(store, wl[w].task.channel)))
    /\ UNCHANGED <<now, store, nextId, log_channel, enqueued, active, nloads,
                   failed>>
    /\ UNCHANGED liveVars

\* lines 94 / 128: the delete of a flush
WorkerDelete(w) ==
    /\ wpc[w] = "delete"
    /\ store' = FlushDelete(store, wl[w].kw)
    /\ wpc' = [wpc EXCEPT ![w] = "insert"]
    /\ UNCHANGED <<now, nextId, locks, log_channel, queue, enqueued, getters, wl,
                   active, nloads, message_tasks, dequeued, failed, finished>>
    /\ UNCHANGED liveVars
    /\ UNCHANGED opsVars

\* lines 95-112 / 129-145: the bulk_create of a flush; then the tallies are
\* cleared and the loop goes on with the next month, or the task returns
WorkerInsert(w) ==
    /\ wpc[w] = "insert"
    /\ store' = store \cup FlushRows(wl[w].task.channel, wl[w].kw,
                                    wl[w].stat_count, nextId, now)
    /\ nextId' = nextId + Len(wl[w].stat_count)
    /\ IF wl[w].buf = <<>>
       THEN Return(w, wl[w].total_msgs)
       ELSE Continue(w, Consume(wl[w].buf, NoMonth, <<>>, wl[w].total_msgs),
                     wl[w].before)
    /\ UNCHANGED <<now, log_channel, enqueued, active, nloads, failed>>
    /\ UNCHANGED liveVars

\* an await of recalculate_channel raises (database or HTTP error): the lock
\* is released by `async with`, the worker logs and loops
WorkerFail(w) ==
    /\ \/ wpc[w] \in {"query", "delete", "insert"}
       \/ wpc[w] = "lock" /\ locks[wl[w].task.channel].holder = W(w)
    /\ failed' = failed \cup {wl[w].task.id}
    /\ LET lk == IF wpc[w] = "query" THEN locks
                 ELSE [locks EXCEPT ![wl[w].task.channel] = Release(@)]
       IN IF AfterException(wpc[w]) = "get"
          THEN Loop(w, OnException(queue, wl[w].task), message_tasks, lk)
          ELSE /\ wpc' = [wpc EXCEPT ![w] = AfterException(wpc[w])]
               /\ wl' = [wl EXCEPT ![w] = IdleWorker]
               /\ queue' = OnException(queue, wl[w].task)
               /\ locks' = lk
               /\ UNCHANGED <<getters, message_tasks, dequeued>>
               /\ UNCHANGED opsVars
    /\ UNCHANGED <<now, store, nextId, log_channel, enqueued, active, nloads,
                   finished>>
    /\ UNCHANGED liveVars

----------------------------------------------------------------------------
(* Progress notices: send_start_message, send_end_message, log_worker      *)

RECURSIVE Digits(_)
Digits(n) == IF n < 10 THEN 1 ELSE 1 + Digits(n \div 10)

\* len() of the text of a notice (the f-strings of lines 59 and 66)
NoticeLen(n) ==
    IF n.kind = "start" THEN StartFixedLen + MentionLen
    ELSE EndFixedLen + MentionLen + Digits(n.count)

RECURSIVE SumNoticeLen(_)
SumNoticeLen(msg) ==
    IF msg = <<>> THEN 0 ELSE NoticeLen(Head(msg)) + SumNoticeLen(Tail(msg))

\* len(msg) of notices joined by "\n"
TextLen(msg) == IF msg = <<>> THEN 0 ELSE SumNoticeLen(msg) + (Len(msg) - 1)

\* mutant: the absorbed notice replaces the text
JoinKeepsLast(msg, n) == <<n>>

\* line 265: msg += "\n" + notice
Join(msg, n) == Append(msg, n)

\* mutant: the loop has no size test
NoCeiling(msg) == TRUE

\* line 263: len(msg) < 1700, tested before the next notice is taken
BelowCeiling(msg) == TextLen(msg) < LogCeiling

Starts == Cardinality({i \in 1..Len(posted) : posted[i].kind = "start"})
Ends == Cardinality({i \in 1..Len(posted) : posted[i].kind = "end"})

\* send_start_message(channel), called by a worker that has taken a task
\* (line 252); the pool itself is left out: one worker is busy at a time
SendStartMessage(c) ==
    /\ active
    /\ Len(posted) < MaxNotices
    /\ Starts = Ends
    /\ message_tasks' = PutMessage(message_tasks, [kind |-> "start", channel |-> c])
    /\ posted' = posted \o NewNotices(message_tasks, message_tasks')
    /\ lpc' = Wake(lpc, message_tasks, message_tasks')
    /\ UNCHANGED <<now, store, nextId, locks, log_channel, queue, enqueued,
                   getters, wpc, wl, active, nloads, dequeued, failed, finished,
                   workers, lmsg, outgoing, cmd, reply>>
    /\ UNCHANGED liveVars

\* send_end_message(channel, message_count), called by the worker whose
\* recalculation returned (line 254)
SendEndMessage(c, n) ==
    /\ active
    /\ Len(posted) < MaxNotices
    /\ Starts > Ends
    /\ posted[Len(posted)].channel = c
    /\ message_tasks' = PutMessage(message_tasks,
                                   [kind |-> "end", channel |-> c, count |-> n])
    /\ posted' = posted \o NewNotices(message_tasks, message_tasks')
    /\ lpc' = Wake(lpc, message_tasks, message_tasks')
    /\ UNCHANGED <<now, store, nextId, locks, log_channel, queue, enqueued,
                   getters, wpc, wl, active, nloads, dequeued, failed, finished,
                   workers, lmsg, outgoing, cmd, reply>>
    /\ UNCHANGED liveVars

\* the top of `while True` of log_worker: msg = await message_tasks.get()
\* suspends on an empty queue q, else takes the head and opens the window
LogLoop(q) ==
    IF q = <<>>
    THEN /\ lpc' = "wait"
         /\ lmsg' = <<>>
         /\ message_tasks' = q
    ELSE /\ lpc' = "coalesce"
         /\ lmsg' = <<Head(q)>>
         /\ message_tasks' = Tail(q)

\* the log_worker, just created or woken by a put, runs message_tasks.get()
LogGet ==
    /\ lpc = "get"
    /\ LogLoop(message_tasks)
    /\ UNCHANGED <<now, store, nextId, locks, log_channel, workers, posted,
                   outgoing, cmd, reply>>
    /\ UNCHANGED <<queue, enqueued, getters, wpc, wl, active, nloads, dequeued,
                   failed, finished>>
    /\ UNCHANGED liveVars

\* lines 263-266: the window is open, the text is below the ceiling and
\* wait_for(message_tasks.get(), 1) hands over a notice, which is joined
LogAbsorb ==
    /\ lpc = "coalesce"
    /\ BelowCeiling(lmsg)
    /\ message_tasks /= <<>>
    /\ lmsg' = Join(lmsg, Head(message_tasks))
    /\ message_tasks' = Tail(message_tasks)
    /\ UNCHANGED <<now, store, nextId, locks, log_channel, workers, lpc, posted,
                   outgoing, cmd, reply>>
    /\ UNCHANGED <<queue, enqueued, getters, wpc, wl, active, nloads, dequeued,
                   failed, finished>>
    /\ UNCHANGED liveVars

\* lines 263, 267-269: the loop ends (a second has passed, the text has
\* reached the ceiling, or wait_for timed out on the empty queue) and
\* send(msg) is called
LogBreak ==
    /\ lpc = "coalesce"
    /\ lpc' = "send"
    /\ outgoing' = outgoing \o lmsg
    /\ UNCHANGED <<now, store, nextId, locks, log_channel, workers, lmsg, posted,
                   message_tasks, cmd, reply>>
    /\ UNCHANGED <<queue, enqueued, getters, wpc, wl, active, nloads, dequeued,
                   failed, finished>>
    /\ UNCHANGED liveVars

\* lines 269-270: send(msg) returns, task_done, and the loop starts over
LogSend ==
    /\ lpc = "send"
    /\ LogLoop(message_tasks)
    /\ UNCHANGED <<now, store, nextId, locks, log_channel, workers, posted,
                   outgoing, cmd, reply>>
    /\ UNCHANGED <<queue, enqueued, getters, wpc, wl, active, nloads, dequeued,
                   failed, finished>>
    /\ UNCHANGED liveVars

\* line 269: send(msg) raises (HTTP error, channel gone); nothing in
\* log_worker catches it, so the task ends with the exception
LogSendFail ==
    /\ lpc = "send"
    /\ lpc' = "dead"
    /\ lmsg' = <<>>
    /\ workers' = [workers EXCEPT ![Len(workers)].alive = FALSE]
    /\ UNCHANGED <<now, store, nextId, locks, log_channel, posted, outgoing,
                   message_tasks, cmd, reply>>
    /\ UNCHANGED <<queue, enqueued, getters, wpc, wl, active, nloads, dequeued,
                   failed, finished>>
    /\ UNCHANGED liveVars

----------------------------------------------------------------------------
(* /statistics user: what a member is shown about their own counts *)

\* the member who asks, in the guild they ask in
ViewMember == "u"
ViewGuild == "G"

\* everything a query leaves alone
viewFrame == <<now, history, nmsgs, hpc, hexisting, store, nextId, locks,
               queue, enqueued, getters, wpc, wl, active, nloads, log_channel,
               message_tasks, dequeued, failed, finished, workers, lpc, lmsg,
               posted, outgoing, cmd>>

\* Sum("messages") over the rows of one group
RECURSIVE SumMessages(_)
SumMessages(rows) ==
    IF rows = {} THEN 0
    ELSE LET r == CHOOSE r \in rows : TRUE
         IN  r.messages + SumMessages(rows \ {r})

\* sum(stat.sum for stat in stats)
RECURSIVE Total(_)
Total(stats) ==
    IF stats = <<>> THEN 0 ELSE Head(stats).sum + Total(Tail(stats))

\* the orders in which the database may hand over a set of rows
RECURSIVE Orderings(_)
Orderings(S) ==
    IF S = {} THEN {<<>>}
    ELSE UNION {{<<x>> \o rest : rest \in Orderings(S \ {x})} : x \in S}

\* seq[:n]
Take(seq, n) == SubSeq(seq, 1, IF n < Len(seq) THEN n ELSE Len(seq))

\* the rows of the member in the guild, threads left out unless asked for
UserRows(rows, include_threads) ==
    {r \in rows : /\ r.author_id = ViewMember
                  /\ r.guild_id = ViewGuild
                  /\ (include_threads \/ r.thread_id = NoThread)}

\* group_by(guild_id, channel_id, thread_id, author_id, is_private) and
\* values(..., "sum", ...): one dict per group; with_thread = FALSE is the
\* grouping that leaves thread_id out (Statistic(**value) has it None)
GroupValues(rows, with_thread) ==
    LET thread(r) == IF with_thread THEN r.thread_id ELSE NoThread
        same(r, q) == /\ r.guild_id = q.guild_id
                      /\ r.channel_id = q.channel_id
                      /\ thread(r) = thread(q)
                      /\ r.author_id = q.author_id
                      /\ r.is_private = q.is_private
    IN  {[guild_id |-> r.guild_id, channel_id |-> r.channel_id,
          thread_id |-> thread(r), author_id |-> r.author_id,
          sum |-> SumMessages({q \in rows : same(r, q)}),
          is_private |-> r.is_private] : r \in rows}

\* UserHandler.get_queryset
UserQueryset(rows, include_threads) ==
    GroupValues(UserRows(rows, include_threads), TRUE)

\* a nullable boolean read as a condition: None and False are falsy
Truthy(flag) == flag = Some(TRUE)

PackageModes == {"exclude", "hide", "hide_name", "show", "aggregate",
                 "aggregate_all", "show_private_for_self"}
ALL_PRIVATE_AGGREGATE == {"aggregate"}
ALL_AGGREGATE == {"aggregate", "aggregate_all"}

\* the dictionary key of aggregate_threads: the values of the item without
\* thread_id, in the order of the key names (author_id, channel_id,
\* guild_id, is_private, sum)
AggregateKey(item) ==
    <<item.author_id, item.channel_id, item.guild_id, item.is_private,
      item.sum>>

\* the condition get_stats hands to aggregate_threads
Condition(item, mode) ==
    IF mode \in ALL_PRIVATE_AGGREGATE THEN Truthy(item.is_private) ELSE TRUE

\* the loop of aggregate_threads from item i on: thread_stats is the dict
\* in insertion order, and an entry is the first item of its key, summed
\* into in place
RECURSIVE AggregateFrom(_, _, _, _, _)
AggregateFrom(stats, i, mode, thread_stats, non_thread_stats) ==
    IF i > Len(stats)
    THEN [k \in 1..Len(thread_stats) |-> thread_stats[k].item]
         \o non_thread_stats
    ELSE LET item == stats[i]
             key == AggregateKey(item)
             hit == {k \in 1..Len(thread_stats) : thread_stats[k].key = key}
         IN  IF item.thread_id = NoThread \/ ~Condition(item, mode)
             THEN AggregateFrom(stats, i + 1, mode, thread_stats,
                                Append(non_thread_stats, item))
             ELSE IF hit = {}
             THEN AggregateFrom(stats, i + 1, mode,
                                Append(thread_stats,
                                       [key |-> key, item |-> item]),
                                non_thread_stats)
             ELSE LET k == CHOOSE k \in hit : TRUE
                  IN  AggregateFrom(stats, i + 1, mode,
                          [thread_stats EXCEPT
                              ![k].item.sum = @ + item.sum,
                              ![k].item.agg_count = @ + 1],
                          non_thread_stats)

\* mutant: the rows that are not aggregated are left out of the result
aggregate_threads_only(stats, mode) ==
    SelectSeq(AggregateFrom(stats, 1, mode, <<>>, <<>>),
              LAMBDA x : x.thread_id /= NoThread /\ Condition(x, mode))

aggregate_threads(stats, mode) == AggregateFrom(stats, 1, mode, <<>>, <<>>)

\* list.sort(key=sum, reverse=True): descending, ties in their old order
RECURSIVE SortBySum(_)
SortBySum(stats) ==
    IF stats = <<>> THEN <<>>
    ELSE LET x == Head(stats)
             rest == SortBySum(Tail(stats))
             n == Cardinality({k \in 1..Len(rest) : rest[k].sum > x.sum})
         IN  SubSeq(rest, 1, n) \o <<x>> \o SubSeq(rest, n + 1, Len(rest))

\* BaseStatisticsViewHandler.get_stats on the values in the order they
\* came; agg_count is value.get("agg_count", 0)
get_stats(values, mode) ==
    LET dicts == [k \in 1..Len(values) |->
                     [guild_id |-> values[k].guild_id,
                      channel_id |-> values[k].channel_id,
                      thread_id |-> values[k].thread_id,
                      author_id |-> values[k].author_id,
                      sum |-> values[k].sum,
                      is_private |-> values[k].is_private,
                      agg_count |-> 0]]
    IN  SortBySum(IF mode \in ALL_AGGREGATE
                  THEN aggregate_threads(dicts, mode) ELSE dicts)

\* BaseStatisticsViewHandler.filter_stats, which UserHandler keeps
filter_stats(stats) == stats

NotFlaggedPrivate(stat) == ~Truthy(stat.is_private)

\* mutant: the graph draws from every row
GraphPoolAll(stats, mode) == stats

\* top_channels_stats_pool of UserHandler.get_graph_data
GraphPool(stats, mode) ==
    IF mode = "hide" THEN SelectSeq(stats, NotFlaggedPrivate) ELSE stats

\* the bars of UserHandler.get_graph_data
get_graph_data(stats, mode, top_channels) ==
    Take(GraphPool(stats, mode), top_channels)

can_make_graph(top_channels) == top_channels > 0

\* the channels the embed lists
EmbedLimit == 50

\* Statistic.target_channel
target_channel(stat) ==
    IF stat.thread_id /= NoThread THEN stat.thread_id ELSE stat.channel_id

is_private_stat(stat) ==
    IF stat.is_private /= None THEN Truthy(stat.is_private)
    ELSE is_private(target_channel(stat))

NotPrivateStat(stat) == ~is_private_stat(stat)

\* next((is_private_stat(stat) for stat in stats), None) is not None: the
\* first value of the generator is a bool, so only an empty list gives None
has_at_least_one_private_channel(stats) == stats /= <<>>

\* StatisticsView.is_ephemeral of extensions/statistics.py, the one
\* definition of the name
is_ephemeral(mode, has_private) ==
    \/ mode = "ephemeral"
    \/ (has_private /\ mode = "ephemeral_only_if_private")

\* the calendar of the date options: years from BaseYear on, Months 1..12;
\* date(year, month, 1) is the month counted from January of BaseYear
BaseYear == 2015
MonthsPerYear == 12
DateOf(year, month) == (year - BaseYear) * MonthsPerYear + (month - 1)

\* before_date / after_date of a pair that is given whole, else None
PairDate(month, year) ==
    IF month /= None /\ year /= None
    THEN Some(DateOf(CHOOSE y \in year : TRUE, CHOOSE m \in month : TRUE))
    ELSE None

\* (year, month).count(None) == 1
HalfGiven(month, year) == (month = None) /= (year = None)

\* mutant: a before date earlier than the after date goes through
validate_dates_unordered(bm, by, am, ay, t) ==
    LET after_date == PairDate(am, ay)
    IN  IF HalfGiven(bm, by)
        THEN "before_month and before_year must be used together"
        ELSE IF HalfGiven(am, ay)
        THEN "after_month and after_year must be used together"
        ELSE IF after_date /= None
                /\ \E a \in after_date : MonthStart(a) > t
        THEN "after_date cannot be in the future"
        ELSE "none"

\* validate_before_and_after_dates of the month and year of the before
\* pair and of the after pair at the instant t (date.today()): the message
\* of the ValidationError it raises, "none" when it returns
validate_before_and_after_dates(bm, by, am, ay, t) ==
    LET before_date == PairDate(bm, by)
        after_date == PairDate(am, ay)
    IN  IF HalfGiven(bm, by)
        THEN "before_month and before_year must be used together"
        ELSE IF HalfGiven(am, ay)
        THEN "after_month and after_year must be used together"
        ELSE IF after_date /= None
                /\ \E a \in after_date : MonthStart(a) > t
        THEN "after_date cannot be in the future"
        ELSE IF before_date /= None /\ after_date /= None
                /\ \E b \in before_date, a \in after_date : b < a
        THEN "before_date must be after after_date"
        ELSE "none"

\* BaseStatisticsViewHandler.get_queryset: the rows inside the dates
DatedRows(rows, before_date, after_date) ==
    {r \in rows : /\ \A b \in before_date : r.month <= b
                  /\ \A a \in after_date : r.month >= a}

\* BaseStatisticsViewHandler.run for a UserHandler asking about oneself
\* with graph_only = False and the four date options: the answer that goes
\* out; queried tells whether the table was read
Run(mode, top_channels, include_threads, before_month, before_year, after_month, after_year) ==
    LET error == validate_before_and_after_dates(before_month, before_year,
                                                 after_month, after_year, now)
        before_date == PairDate(before_month, before_year)
        after_date == PairDate(after_month, after_year)
        asked == [handler |-> "UserHandler",
                  n |-> reply.n + 1,
                  private_mode |-> mode,
                  top_channels |-> top_channels,
                  include_threads |-> include_threads,
                  aggregate_threads |-> FALSE,
                  before_month |-> before_month,
                  before_year |-> before_year,
                  after_month |-> after_month,
                  after_year |-> after_year,
                  error |-> error]
    IN  /\ IF error /= "none"
           THEN reply' = asked @@ [queried |-> FALSE, ephemeral |-> TRUE]
           ELSE \E values \in Orderings(UserQueryset(
                                  DatedRows(store, before_date, after_date),
                                  include_threads)) :
                  LET stats == filter_stats(get_stats(values, mode))
                  IN  reply' = asked @@
                          [queried |-> TRUE,
                           stats |-> stats,
                           graph |-> IF can_make_graph(top_channels)
                                     THEN get_graph_data(stats, mode,
                                                         top_channels)
                                     ELSE <<>>,
                           total |-> Total(stats),
                           listed |-> Take(stats, EmbedLimit),
                           ephemeral |->
                               is_ephemeral(mode,
                                   has_at_least_one_private_channel(stats))]
        /\ UNCHANGED viewFrame

\* the same without date options
UserHandlerRun(mode, top_channels, include_threads) ==
    /\ reply.n < MaxQueries
    /\ Run(mode, top_channels, include_threads, None, None, None, None)

CommandModes == {"exclude", "hide", "hide_name", "show", "ephemeral",
                 "ephemeral_only_if_private"}

\* order_by("-sum"): the orders the database may answer in
Descending(values) ==
    \A i, j \in 1..Len(values) : i < j => values[i].sum >= values[j].sum

\* StatisticsView.user of extensions/statistics.py asking about oneself with
\* graph_only = False
UserCommand(mode, top_channels, include_threads, aggregate) ==
    LET base == UserRows(store, include_threads)
        kept == IF mode = "exclude"
                THEN {r \in base : r.is_private = Some(FALSE)} ELSE base
        groups == GroupValues(kept, ~(aggregate /\ include_threads))
    IN  /\ reply.n < MaxQueries
        /\ \E values \in {o \in Orderings(groups) : Descending(o)} :
             LET stats == IF mode = "exclude"
                          THEN SelectSeq(values, NotPrivateStat)
                          ELSE values
                 pool == IF mode = "hide"
                         THEN SelectSeq(stats, NotPrivateStat) ELSE stats
             IN  reply' = [handler |-> "user",
                           n |-> reply.n + 1,
                           error |-> "none",
                           private_mode |-> mode,
                           top_channels |-> top_channels,
                           include_threads |-> include_threads,
                           aggregate_threads |->
                               aggregate /\ include_threads,
                           stats |-> stats,
                           graph |-> IF top_channels > 0
                                     THEN Take(pool, top_channels)
                                     ELSE <<>>,
                           total |-> Total(stats),
                           listed |-> Take(stats, EmbedLimit),
                           ephemeral |->
                               is_ephemeral(mode,
                                   has_at_least_one_private_channel(stats))]
        /\ UNCHANGED viewFrame

\* no /statistics query has been answered (n counts the answers)
NoReply == [handler |-> "none", n |-> 0]

\* the largest id the table has given out
MaxId(rows) ==
    IF rows = {} THEN 0
    ELSE CHOOSE n \in {r.id : r \in rows} : \A r \in rows : r.id <= n

\* The bot is constructed at instant t on a guild whose channels hold the
\* messages h and whose table holds rows: no on_message call is
\* running, no lock is taken, the queues are empty, the pool is not
\* started; lc says whether the bot sees RECALCULATION_LOG_CHANNEL.
BootTable(t, h, lc, rows) ==
    /\ now = t
    /\ history = h
    /\ nmsgs = 0
    /\ hpc = [m \in MsgIds |-> "none"]
    /\ hexisting = [m \in MsgIds |-> NoRow]
    /\ store = rows
    /\ nextId = 1 + MaxId(rows)
    /\ locks = [c \in Channels |-> [holder |-> NoHolder, waiters |-> <<>>]]
    /\ queue = <<>>
    /\ enqueued = <<>>
    /\ getters = <<>>
    /\ wpc = [w \in Workers |-> "none"]
    /\ wl = [w \in Workers |-> IdleWorker]
    /\ active = FALSE
    /\ nloads = 0
    /\ log_channel = lc
    /\ message_tasks = <<>>
    /\ dequeued = <<>>
    /\ failed = {}
    /\ finished = {}
    /\ workers = <<>>
    /\ lpc = "none"
    /\ lmsg = <<>>
    /\ posted = <<>>
    /\ outgoing = <<>>
    /\ cmd = <<>>
    /\ reply = NoReply

\* the same with an empty table
BootLog(t, h, lc) == BootTable(t, h, lc, {})

\* the same on a guild where the bot does not see the log channel
Boot(t, h) == BootLog(t, h, FALSE)

\* a new guild: nothing has been posted yet
Init == Boot(0, [c \in Channels |-> <<>>])

(* Live ingest alone: messages arrive and are counted, nothing recalculates *)
NextLive ==
    \/ \E c \in Channels, a \in Authors, k \in Kinds, t \in Instants : Send(c, a, k, t)
    \/ \E m \in MsgIds : OnMessageStart(m)
    \/ \E m \in MsgIds : OnMessageLookup(m)
    \/ \E m \in MsgIds : OnMessageWrite(m)

SpecLive == Init /\ [][NextLive]_vars

(* Live ingest together with full recalculations of the channel and of its
   thread, run by the pool; the log channel is not visible to the bot *)
Next ==
    \/ \E c \in Channels, t \in Instants : Send(c, "b", KLink, t)
    \/ \E m \in MsgIds : OnMessageStart(m)
    \/ \E m \in MsgIds : OnMessageLookup(m)
    \/ \E m \in MsgIds : OnMessageWrite(m)
    \/ \E c \in Channels : Enqueue(c, FALSE, MaxTasks)
    \/ Load
    \/ Unload
    \/ \E w \in Workers : WorkerGet(w)
    \/ \E w \in Workers : WorkerFetch(w)
    \/ \E w \in Workers : WorkerDelete(w)
    \/ \E w \in Workers : WorkerInsert(w)
    \/ \E w \in Workers : WorkerFail(w)

Spec == Init /\ [][Next]_vars

\* the event loop runs every call that is ready, and a pending database
\* call or history fetch is answered (with a result or with an error)
FairSpec ==
    Spec /\ WF_vars(\/ \E m \in MsgIds : \/ OnMessageStart(m)
                                          \/ OnMessageLookup(m)
                                          \/ OnMessageWrite(m)
                    \/ \E w \in Workers : \/ WorkerGet(w)
                                          \/ WorkerFetch(w)
                                          \/ WorkerDelete(w)
                                          \/ WorkerInsert(w)
                                          \/ WorkerFail(w))

----------------------------------------------------------------------------
(* The bot starts on a guild that already has messages.                    *)

\* the messages a channel can hold: of the user and of the bot, with a link
\* (and, sent by the bot, counted with its embed), at the instants 1..MaxTime
Posts(c) ==
    {[channel |-> c, author |-> a, kind |-> KLink, created |-> t] :
        a \in Authors,
        t \in 1..MaxTime}

\* the histories of c of n messages, oldest first, ids from id0 + 1
RECURSIVE Pasts(_, _, _)
Pasts(c, n, id0) ==
    IF n = 0 THEN {<<>>}
    ELSE {Append(h, [id |-> id0 + n, channel |-> p.channel, author |-> p.author,
                     kind |-> p.kind, created |-> p.created]) :
            h \in {x \in Pasts(c, n - 1, id0) :
                      \A i \in 1..Len(x) : x[i].id = id0 + i},
            p \in Posts(c)}

Chronological(h) == \A i \in 1..(Len(h) - 1) : h[i].created <= h[i + 1].created

Histories ==
    {[c \in Channels |-> IF c = "C" THEN hc ELSE ht] :
        hc \in {h \in UNION {Pasts("C", n, 0) : n \in 0..MaxHist} : Chronological(h)},
        ht \in {<<[id |-> MaxHist + 1, channel |-> "T", author |-> "b",
                   kind |-> KLink, created |-> 1]>>}}

\* a guild with a past; the clock is past the last message
InitHist == \E h \in Histories : Boot(MaxTime + 1, h)

(* Recalculations, full and incremental, of a quiet guild *)
NextRecalc ==
    \/ \E c \in Channels, sl \in BOOLEAN : Enqueue(c, sl, MaxPoolTasks)
    \/ Load
    \/ \E w \in Workers : WorkerGet(w)
    \/ \E w \in Workers : WorkerQuery(w)
    \/ \E w \in Workers : WorkerFetch(w)
    \/ \E w \in Workers : WorkerDelete(w)
    \/ \E w \in Workers : WorkerInsert(w)

SpecRecalc == InitHist /\ [][NextRecalc]_vars

\* one guild: one message of the bot in C and one in T
HistoryPool ==
    [c \in Channels |->
        IF c = "C"
        THEN <<[id |-> 1, channel |-> "C", author |-> "b", kind |-> KLink,
                created |-> 1]>>
        ELSE <<[id |-> 2, channel |-> "T", author |-> "b", kind |-> KLink,
                created |-> 1]>>]

InitPool == Boot(MaxTime + 1, HistoryPool)

(* The pool with failing recalculations and deactivation *)
WorkerRuns(w) ==
    \/ WorkerGet(w)
    \/ WorkerQuery(w)
    \/ WorkerFetch(w)
    \/ WorkerDelete(w)
    \/ WorkerInsert(w)

NextPool ==
    \/ \E c \in Channels, sl \in BOOLEAN : Enqueue(c, sl, MaxPoolTasks)
    \/ Load
    \/ Unload
    \/ \E w \in Workers : WorkerRuns(w)
    \/ \E w \in Workers : WorkerFail(w)

SpecPool == InitPool /\ [][NextPool]_vars

\* the event loop runs a task that is ready, and a pending database call or
\* history fetch is answered (with a result or with an error)
FairPool == SpecPool /\ WF_vars(\E w \in Workers : WorkerRuns(w) \/ WorkerFail(w))

LogRuns ==
    \/ LogGet
    \/ LogAbsorb
    \/ LogBreak
    \/ LogSend

(* The notices of one worker busy with channel C, and the log_worker, while
   the cog is active and the bot sees the log channel *)
InitNotify == BootLog(0, [c \in Channels |-> <<>>], TRUE)

NextNotify ==
    \/ Load
    \/ SendStartMessage("C")
    \/ SendEndMessage("C", 1)
    \/ LogGet
    \/ LogAbsorb
    \/ LogBreak
    \/ LogSend
    \/ LogSendFail

SpecNotify == InitNotify /\ [][NextNotify]_vars

\* the event loop runs the log_worker when it is ready, and send() answers
\* (with a result or with an error)
FairNotify == SpecNotify /\ WF_vars(LogRuns \/ LogSendFail)

(* The pool with failing recalculations, deactivation, and the log_worker
   with failing deliveries; the bot sees the log channel *)
InitPoolLog == BootLog(MaxTime + 1, HistoryPool, TRUE)

NextPoolLog ==
    \/ \E c \in Channels, sl \in BOOLEAN : Enqueue(c, sl, MaxPoolTasks)
    \/ Load
    \/ Unload
    \/ \E w \in Workers : WorkerRuns(w)
    \/ \E w \in Workers : WorkerFail(w)
    \/ LogRuns
    \/ LogSendFail

SpecPoolLog == InitPoolLog /\ [][NextPoolLog]_vars

\* the event loop runs a worker that is ready and its database calls and
\* history fetches are answered; nothing is assumed of the log_worker
FairPoolLog ==
    SpecPoolLog /\ WF_vars(\E w \in Workers : WorkerRuns(w) \/ WorkerFail(w))

\* a guild where C has one message of the bot from before the bot counted
\* (no on_message call ran for it) and the thread T is new
HistoryMixed ==
    [c \in Channels |->
        IF c = "C"
        THEN <<[id |-> 0, channel |-> "C", author |-> "b", kind |-> KLink,
                created |-> 0]>>
        ELSE <<>>]

InitMixed == Boot(0, HistoryMixed)

(* Live ingest in the thread while the channel is recalculated in full *)
NextMixed ==
    \/ \E t \in Instants : Send("T", "b", KLink, t)
    \/ \E m \in MsgIds : OnMessageStart(m)
    \/ \E m \in MsgIds : OnMessageLookup(m)
    \/ \E m \in MsgIds : OnMessageWrite(m)
    \/ Enqueue("C", FALSE, MaxTasks)
    \/ Load
    \/ \E w \in Workers : WorkerGet(w)
    \/ \E w \in Workers : WorkerFetch(w)
    \/ \E w \in Workers : WorkerDelete(w)
    \/ \E w \in Workers : WorkerInsert(w)

SpecMixed == InitMixed /\ [][NextMixed]_vars

(* Recalculations of a channel with one old message and of its new, empty
   thread; the bot sees the log channel *)
InitQuiet == BootLog(0, HistoryMixed, TRUE)

NextQuiet ==
    \/ \E c \in Channels, sl \in BOOLEAN : Enqueue(c, sl, MaxPoolTasks)
    \/ Load
    \/ \E w \in Workers : WorkerRuns(w)

SpecQuiet == InitQuiet /\ [][NextQuiet]_vars

(* The owner's commands, the pool with failing recalculations and the
   log_worker; the bot sees the log channel *)
NextCommand ==
    \/ \E c \in Channels, it \in BOOLEAN, ot \in BOOLEAN, sl \in BOOLEAN :
          CommandAck(c, it, ot, sl)
    \/ CommandQueue
    \/ Load
    \/ \E w \in Workers : WorkerRuns(w)
    \/ \E w \in Workers : WorkerFail(w)
    \/ LogRuns
    \/ LogSendFail

SpecCommand == InitPoolLog /\ [][NextCommand]_vars

----------------------------------------------------------------------------
(* The commands alone, on the two guilds: nothing runs the tasks *)
FanChannels == {"C", "D", "F", "V", "N", "M", "T"}
FanGuilds == {"G", "H", "X"}

NextFan ==
    \/ \E c \in FanChannels, it \in BOOLEAN, ot \in BOOLEAN, sl \in BOOLEAN :
          ChannelCommand(c, it, ot, sl, MaxCommands)
    \/ \E g \in FanGuilds, it \in BOOLEAN, ot \in BOOLEAN, sl \in BOOLEAN :
          GuildCommand(g, it, ot, sl, MaxCommands)
    \/ \E it \in BOOLEAN, ot \in BOOLEAN, sl \in BOOLEAN :
          GlobalCommand(it, ot, sl, MaxCommands)
    \/ CommandQueue

SpecFan == InitPoolLog /\ [][NextFan]_vars

(* Queries alone: a member asks for their statistics over a table that
   months of messages in a channel and three of its threads have left *)

ViewThreads == <<"T", "T2", "T3">>
ViewSums == {2, 3, 5}
UnitOf(n) == [Unit0 EXCEPT !.messages = n]

\* the table: the member's rows in channel ch (two months of the private
\* channel C, or one of the public channel D, or none), one row per thread
\* of C where f gives a count, flagged private or not as the row was
\* written, and a row of somebody else
ViewTable(ch, f) ==
    (IF ch = "C"
     THEN {Statistic(1, ViewGuild, "C", NoThread, ViewMember, 0, UnitOf(1),
                     FALSE, None, 0),
           Statistic(2, ViewGuild, "C", NoThread, ViewMember, 1, UnitOf(3),
                     FALSE, None, 0)}
     ELSE IF ch = "D"
     THEN {Statistic(3, ViewGuild, "D", NoThread, ViewMember, 0, UnitOf(1),
                     FALSE, None, 0)}
     ELSE {})
    \cup {Statistic(3 + i, ViewGuild, "C", ViewThreads[i], ViewMember, 0,
                    UnitOf(f[i][1]), FALSE, Some(f[i][2]), 0) :
            i \in {k \in 1..Len(ViewThreads) : f[k][1] /= 0}}
    \cup {Statistic(7, ViewGuild, "C", "T", "b", 0, UnitOf(5), TRUE,
                    Some(TRUE), 0)}

InitView ==
    \E ch \in {"none", "C", "D"},
       f \in [1..Len(ViewThreads) -> (ViewSums \cup {0}) \X BOOLEAN] :
        BootTable(0, [c \in Channels |-> <<>>], FALSE, ViewTable(ch, f))

NextView ==
    \/ \E mode \in PackageModes, top \in 0..MaxTop, it \in BOOLEAN :
          UserHandlerRun(mode, top, it)
    \/ \E mode \in CommandModes, top \in 0..MaxTop, it \in BOOLEAN,
          agg \in BOOLEAN :
          UserCommand(mode, top, it, agg)

SpecView == InitView /\ [][NextView]_vars

(* Queries with date options, asked in the second month of a table *)

DateYears == {BaseYear, BaseYear + 1}
DateMonths == {1, 2, 3}
Optional(S) == {None} \cup {Some(x) : x \in S}

InitDates ==
    \E ch \in {"none", "C", "D"},
       f \in [1..Len(ViewThreads) -> {<<0, FALSE>>, <<2, TRUE>>}] :
        BootTable(MaxTime, [c \in Channels |-> <<>>], FALSE, ViewTable(ch, f))

NextDates ==
    \E mode \in {"show", "hide"}, top \in {0, MaxTop}, it \in BOOLEAN,
       bm \in Optional(DateMonths), by \in Optional(DateYears),
       am \in Optional(DateMonths), ay \in Optional(DateYears) :
        /\ reply.n < MaxQueries
        /\ Run(mode, top, it, bm, by, am, ay)

SpecDates == InitDates /\ [][NextDates]_vars

(* Recalculation of a guild whose table holds rows of messages that may
   have been deleted since *)

\* a row of channel C counted at instant 0 for every author and month
PriorRows ==
    {Statistic(1 + 2 * mo + (IF a = "u" THEN 0 ELSE 1), GuildOf("C"), "C",
               NoThread, a, mo, UnitOf(1), IsBot(a), None, 0) :
        a \in Authors, mo \in 0..MonthOf(MaxTime)}

InitStale ==
    \E h \in Histories, rows \in SUBSET PriorRows :
        BootTable(MaxTime + 1, h, FALSE, rows)

NextStale ==
    \/ \E c \in Channels, sl \in BOOLEAN : Enqueue(c, sl, MaxTasks)
    \/ Load
    \/ \E w \in Workers : WorkerGet(w)
    \/ \E w \in Workers : WorkerQuery(w)
    \/ \E w \in Workers : WorkerFetch(w)
    \/ \E w \in Workers : WorkerDelete(w)
    \/ \E w \in Workers : WorkerInsert(w)

SpecStale == InitStale /\ [][NextStale]_vars

(* The pool on guilds where the bot sees the log channel and on guilds where
   it does not *)
InitNotices ==
    \E lc \in BOOLEAN, h \in Histories : BootLog(MaxTime + 1, h, lc)

SpecNotices == InitNotices /\ [][NextPool]_vars


----------------------------------------------------------------------------
(* Properties *)

Months == 0..MonthOf(MaxTime)
Range(seq) == {seq[i] : i \in 1..Len(seq)}

\* C1: in every reachable state no two rows of the table have the same
\* (channel_id, thread_id, author_id, month), rows without thread included;
\* the table itself (a set of rows with distinct ids) does not enforce it.
Uniqueness ==
    \A r1, r2 \in store : RowKey(r1) = RowKey(r2) => r1.id = r2.id

\* a recalculation has returned, a live call has written, and a row of the
\* channel itself counts at least two messages
UniquenessWitness ==
    /\ finished /= {}
    /\ \E m \in MsgIds : hpc[m] = "done"
    /\ \E r \in store : r.thread_id = NoThread /\ r.messages >= 2

\* the operations that are keyed by channel id c and are at a write of the
\* table: an on_message call at its create/save, a worker at a flush
Writers(c) ==
    {H(m) : m \in {x \in MsgIds : hpc[x] = "write" /\ Msg(x).channel = c}}
    \cup {W(w) : w \in {x \in Workers : wpc[x] \in {"delete", "insert"}
                                          /\ wl[x].task.channel = c}}

Settled(c) ==
    /\ \A m \in MsgIds : hpc[m] \in {"none", "done"}
    /\ finished = 1..Len(enqueued)
    /\ finished /= {}
    /\ \A i \in 1..Len(enqueued) : enqueued[i].channel = c

StoredMessages(c, a, mo) ==
    LET rows == {r \in TargetRows(store, c) : r.author_id = a /\ r.month = mo}
    IN IF rows = {} THEN 0 ELSE (CHOOSE r \in rows : TRUE).messages

RefMessages(c, a, mo) ==
    Cardinality({i \in 1..Len(history[c]) :
                    /\ history[c][i].author = a
                    /\ get_month_bucket_from_message(history[c][i]) = mo})

\* C2: once the live calls for the messages of a channel and the
\* recalculations of that channel have all finished, the stored message
\* count of every author and month is the number of that author's messages
\* of that month in the channel.
CountMatchesReference ==
    \A c \in Channels :
        Settled(c) =>
            \A a \in Authors, mo \in Months :
                StoredMessages(c, a, mo) = RefMessages(c, a, mo)

\* C8: the delete of a flush removes only rows whose channel, thread (or
\* absence of thread) and month are those of the flush.
FlushDeletesOnlyTarget ==
    [][\A w \in Workers :
          (wpc[w] = "delete" /\ wpc'[w] = "insert") =>
              \A r \in store :
                  r \notin store' =>
                      /\ r.channel_id = TargetChannel(wl[w].task.channel)
                      /\ r.thread_id = TargetThread(wl[w].task.channel)
                      /\ r.month = wl[w].kw.month]_vars

\* C9: no task is handed out twice by the queue, no two workers run the
\* same task, a task that was handed out is never on the queue again, and
\* a task whose recalculation raised is run by no worker afterwards.
ConsumedAtMostOnce ==
    /\ \A i, j \in 1..Len(dequeued) : dequeued[i] = dequeued[j] => i = j
    /\ \A i \in 1..Len(queue) : queue[i].id \notin Range(dequeued)
    /\ \A w1, w2 \in Workers :
          (wl[w1].task /= NoTask /\ wl[w1].task = wl[w2].task) => w1 = w2
    /\ \A w \in Workers : wl[w].task.id \notin failed

\* a task has failed and the task enqueued after it has been handed out
ConsumedAtMostOnceWitness ==
    \E t \in failed : t + 1 \in Range(dequeued)

\* the contribution of one message as section 4.1 of the specification
\* states it: tokens, text length, attachments, URL matches, and for a bot
\* also the embed lengths and one link per embed that has a URL
Contribution(msg) ==
    LET bot == IsBot(msg.author)
    IN [messages |-> 1,
        words |-> WordCount(msg.kind.content),
        characters |-> CharCount(msg.kind.content)
                       + (IF bot THEN EmbedChars(msg.kind.embeds) ELSE 0),
        attachments |-> msg.kind.attachments,
        links |-> LinkCount(msg.kind.content)
                  + (IF bot THEN EmbedLinks(msg.kind.embeds) ELSE 0)]

Plus(u, d) ==
    [messages |-> u.messages + d.messages, words |-> u.words + d.words,
     characters |-> u.characters + d.characters,
     attachments |-> u.attachments + d.attachments,
     links |-> u.links + d.links]

\* the reference accumulation over the messages of h
RECURSIVE Accumulate(_)
Accumulate(h) ==
    IF h = <<>> THEN Unit0
    ELSE Plus(Accumulate(Tail(h)), Contribution(Head(h)))

Counts(r) == [author_id |-> r.author_id, month |-> r.month,
              messages |-> r.messages, words |-> r.num_words,
              characters |-> r.num_characters,
              attachments |-> r.num_attachments, links |-> r.num_links]

Of(h, a, mo) ==
    SelectSeq(h, LAMBDA m : m.author = a /\ get_month_bucket_from_message(m) = mo)

\* one entry per author and month that has a message in h
RefCounts(h) ==
    {[author_id |-> x[1], month |-> x[2],
      messages |-> Accumulate(Of(h, x[1], x[2])).messages,
      words |-> Accumulate(Of(h, x[1], x[2])).words,
      characters |-> Accumulate(Of(h, x[1], x[2])).characters,
      attachments |-> Accumulate(Of(h, x[1], x[2])).attachments,
      links |-> Accumulate(Of(h, x[1], x[2])).links] :
        x \in {y \in Authors \X (0..MonthOf(MaxTime)) : Of(h, y[1], y[2]) /= <<>>}}

\* the messages of h whose on_message call has ended
Counted(h) == SelectSeq(h, LAMBDA m : hpc[m.id] = "done")

\* C4: with live ingest alone, starting from an empty table, the rows of
\* every channel or thread are exactly one row per author and month that has
\* a counted message, whose message count is the number N of counted
\* messages and whose word, character, attachment and link counts are the
\* sums of the contributions of those messages.
IncrementCorrect ==
    \A c \in Channels :
        /\ {Counts(r) : r \in TargetRows(store, c)} = RefCounts(Counted(history[c]))
        /\ Cardinality(TargetRows(store, c))
              = Cardinality(RefCounts(Counted(history[c])))

\* two messages of the bot, and two of the user, have been counted in one
\* bucket each; the embeds of the bot added links
IncrementCorrectWitness ==
    /\ \A m \in MsgIds : hpc[m] = "done"
    /\ \E r \in store :
          /\ r.messages = 2
          /\ r.is_bot
          /\ r.num_links = 4

\* every task enqueued so far is a full recalculation of c and has returned
OnlyFullRunsOf(c) ==
    /\ enqueued /= <<>>
    /\ finished = 1..Len(enqueued)
    /\ \A i \in 1..Len(enqueued) :
          enqueued[i].channel = c /\ ~enqueued[i].since_last

\* the messages of h fall in two consecutive months
SpansTwoMonths(h) ==
    \E mo \in 0..MonthOf(MaxTime) :
        {get_month_bucket_from_message(h[i]) : i \in 1..Len(h)} = {mo, mo + 1}

\* C5: after a full recalculation of a target over a history that spans two
\* months, the rows of the target are one per author and month of the
\* history, with the counts of the reference accumulation, and nothing else.
RecalcMatchesReference ==
    \A c \in Channels :
        (OnlyFullRunsOf(c) /\ SpansTwoMonths(history[c])) =>
            /\ {Counts(r) : r \in TargetRows(store, c)} = RefCounts(history[c])
            /\ Cardinality(TargetRows(store, c))
                  = Cardinality(RefCounts(history[c]))

\* the step in which worker w returns from recalculate_channel
Returns(w) == wl[w].task /= NoTask /\ wl[w].task.id \in finished' \ finished

\* the rows of the target of worker w when its scan began (an empty scan
\* begins and returns in one step)
Began(w) ==
    IF wpc[w] = "lock" THEN Snapshot(TargetRows(store, wl[w].task.channel))
    ELSE wl[w].before

\* C6: when a full recalculation of a target returns, and an earlier full
\* recalculation of the same target has returned before it began, and
\* nothing else ran, the rows of the target (keys, counts, is_bot,
\* is_private) are what they were when it began.
RecalcIdempotent ==
    [][\A w \in Workers :
          (/\ Returns(w)
           /\ finished /= {}
           /\ \A i \in 1..Len(enqueued) :
                 /\ enqueued[i].channel = wl[w].task.channel
                 /\ ~enqueued[i].since_last)
          => Snapshot(TargetRows(store', wl[w].task.channel)) = Began(w)]_vars

\* two full recalculations of the same target have returned and left rows
\* of two months
RecalcIdempotentWitness ==
    /\ Len(enqueued) = 2
    /\ finished = {1, 2}
    /\ enqueued[1].channel = enqueued[2].channel
    /\ ~enqueued[1].since_last /\ ~enqueued[2].since_last
    /\ \E r1, r2 \in TargetRows(store, enqueued[1].channel) : r1.month /= r2.month

\* C7: an incremental recalculation that found a stored row of its target,
\* last updated at T in month M, scans the history from the start of M.
IncrementalLowerBound ==
    \A w \in Workers :
        (/\ wpc[w] \in {"lock", "delete", "insert"}
         /\ wl[w].task.since_last
         /\ wl[w].had /= NoRow)
        => wl[w].after = MonthStart(MonthOf(wl[w].had.last_updated))

\* the step in which the recalculation run by worker w raises
Raises(w) == wl[w].task /= NoTask /\ wl[w].task.id \in failed' \ failed

TaskIds == 1..MaxPoolTasks

\* C10: a worker whose recalculation raises is back in its loop (waiting in
\* queue.get() or running the next task), and while the pool is active every
\* task on the queue is eventually taken and run to its end.
WorkersSurvive ==
    /\ [][\A w \in Workers :
             Raises(w) => wpc'[w] \in {"wait", "query", "lock"}]_vars
    /\ \A t \in TaskIds :
          (t \in {queue[i].id : i \in 1..Len(queue)})
             ~> (t \in finished \cup failed \/ ~active)

\* a recalculation has raised, and a task enqueued after it has returned
WorkersSurviveWitness ==
    \E t \in failed : \E u \in finished : u > t

----------------------------------------------------------------------------
(* Order, lifecycle and notices *)

\* C11: tasks are handed to the workers in the order in which they were put
\* on the queue: the ids in `dequeued` (ids are given in submission order)
\* increase, and a task still on the queue is younger than every task that
\* was handed out.
FifoDequeue ==
    /\ \A i, j \in 1..Len(dequeued) : i < j => dequeued[i] < dequeued[j]
    /\ \A i \in 1..Len(queue), j \in 1..Len(dequeued) : dequeued[j] < queue[i].id

\* two tasks were handed out, the later one while the earlier one was still
\* being worked on by another worker
FifoDequeueWitness ==
    /\ Len(dequeued) >= 2
    /\ \E w1, w2 \in Workers :
          /\ w1 /= w2
          /\ wl[w1].task /= NoTask /\ wl[w2].task /= NoTask
          /\ wl[w1].task.id < wl[w2].task.id

Alive(kind) ==
    {i \in 1..Len(workers) : workers[i].kind = kind /\ workers[i].alive}

\* C12: whatever the activations and deactivations so far, at most five of
\* the worker tasks ever created are still running (so at most five tasks
\* are in progress) and at most one log_worker is; they are tasks of the
\* latest activation.
PoolBounded ==
    /\ Cardinality(Alive("worker")) <= NumWorkers
    /\ Cardinality(Alive("log")) <= 1
    /\ \A i \in Alive("worker") \cup Alive("log") :
          active /\ i > Len(workers) - (NumWorkers + 1)

\* the cog has been activated a second time and two tasks are in progress
PoolBoundedWitness ==
    /\ active
    /\ Len(workers) = 2 * (NumWorkers + 1)
    /\ Cardinality({w \in Workers : wl[w].task /= NoTask}) = 2

\* the notices the log_worker has taken and not yet handed to send()
Held == IF lpc = "coalesce" THEN lmsg ELSE <<>>

\* C13: the notices handed to send(), followed by those being joined and
\* those still queued, are the notices put on the queue, in the order in
\* which they were put, each once; and every notice put is eventually part
\* of a notification handed to send(), unless a delivery error has ended the
\* log_worker.
NoticesPreserved ==
    /\ [](posted = outgoing \o Held \o message_tasks)
    /\ \A n \in 1..MaxNotices :
          (Len(posted) >= n) ~> (Len(outgoing) >= n \/ lpc = "dead")

\* a notification joined from three notices is handed to send() after an
\* earlier notification of one notice
NoticesPreservedWitness ==
    /\ lpc = "send"
    /\ Len(lmsg) = 3
    /\ Len(outgoing) = 4

\* C14 as stated: a notification joined from more than one notice is never
\* longer than the ceiling.
CeilingRespected ==
    (lpc = "send" /\ Len(lmsg) > 1) => TextLen(lmsg) <= LogCeiling

\* C14, amended: a notice is joined only to a text that is below the
\* ceiling, so a notification joined from more than one notice was shorter
\* than the ceiling before its last notice was joined.
CeilingBeforeLastJoin ==
    (lpc \in {"coalesce", "send"} /\ Len(lmsg) > 1) =>
        TextLen(SubSeq(lmsg, 1, Len(lmsg) - 1)) < LogCeiling

\* a notification that passed the ceiling with its last notice is handed to
\* send() while more notices are queued
CeilingBeforeLastJoinWitness ==
    /\ lpc = "send"
    /\ TextLen(lmsg) > LogCeiling
    /\ message_tasks /= <<>>

\* the step in which worker w takes task t off the queue
Takes(w, t) == wl'[w].task = t /\ wl[w].task /= t /\ dequeued' /= dequeued

\* C15: the step in which a worker takes a task puts its start notice, and
\* the step in which its recalculation returns puts its finish notice, with
\* no suspension in between; and whatever the log_worker does or fails to
\* do (nothing is assumed of it), every task on the queue is eventually
\* finished or failed while the pool is active.
NotifyNeverBlocks ==
    /\ [][\A w \in Workers :
             /\ \A i \in 1..Len(enqueued) :
                   Takes(w, enqueued[i]) =>
                       \E n \in Range(NewNotices(posted, posted')) :
                           n.kind = "start" /\ n.channel = enqueued[i].channel
             /\ Returns(w) =>
                   \E n \in Range(NewNotices(posted, posted')) :
                       n.kind = "end" /\ n.channel = wl[w].task.channel]_vars
    /\ \A t \in TaskIds :
          (t \in {queue[i].id : i \in 1..Len(queue)})
             ~> (t \in finished \cup failed \/ ~active)

\* a recalculation has returned after a delivery error ended the log_worker,
\* and its notices are left on the queue
NotifyNeverBlocksWitness ==
    /\ active
    /\ lpc = "dead"
    /\ finished /= {}
    /\ \E i \in 1..Len(message_tasks) : message_tasks[i].kind = "end"

\* C16: a delivery error does not end the log_worker: while the cog stays
\* active, a log_worker that has called send() is still in send() or back
\* in its loop (waiting for a notice or joining the next ones).
DeliveryErrorSurvived ==
    [][(lpc = "send" /\ active') => lpc' \in {"send", "wait", "coalesce"}]_vars

\* C17: every task handed to a worker was put by a command that had sent
\* its response before; a failing recalculation changes nothing of the
\* commands; and, the log channel being visible, the step in which the
\* recalculation fails puts a notice about the channel of the failed task
\* (other than the start notice of the next task) on message_tasks.
CommandNeverFails ==
    /\ [](\A i \in 1..Len(dequeued) :
            \E k \in 1..Len(cmd) :
                /\ cmd[k].state = "queued"
                /\ cmd[k].first <= dequeued[i] /\ dequeued[i] <= cmd[k].last)
    /\ [][\A w \in Workers : Raises(w) => cmd' = cmd]_vars
    /\ [][\A w \in Workers :
             (Raises(w) /\ log_channel) =>
                 \E n \in Range(NewNotices(posted, posted')) :
                     n.kind /= "start" /\ n.channel = wl[w].task.channel]_vars

\* C18: the step that deactivates the pool ends every worker and changes no
\* row; no task is dequeued while the pool is inactive; and the task a
\* worker is cancelled in leaves each month of its target either replaced
\* or with its previous rows, so a month that had rows when the scan began
\* still has rows.
CancelKeepsMonths ==
    /\ [][~active => dequeued' = dequeued]_vars
    /\ [][(active /\ ~active') =>
             /\ \A w \in Workers : wpc'[w] = "dead"
             /\ dequeued' = dequeued
             /\ store' = store]_vars
    /\ [][(active /\ ~active') =>
             \A w \in Workers : \A m \in Months :
                 (\E r \in wl[w].before.rows : r.month = m) =>
                     \E r \in TargetRows(store', wl[w].task.channel) :
                         r.month = m]_vars

Operations == {H(m) : m \in MsgIds} \cup {W(w) : w \in Workers}

\* the locks an operation holds or waits for
LocksOf(p) ==
    {c \in Channels : locks[c].holder = p \/ p \in Range(locks[c].waiters)}

\* the operation is inside `async with self.locks[c]`, past acquire()
InsideLock(p, c) ==
    \/ \E m \in MsgIds : /\ p = H(m)
                          /\ hpc[m] \in {"lock", "write"}
                          /\ Msg(m).channel = c
    \/ \E w \in Workers : /\ p = W(w)
                           /\ wpc[w] \in {"lock", "delete", "insert"}
                           /\ wl[w].task.channel = c

\* C19: every on_message call and every worker holds or waits for at most
\* one channel lock; the holder of a lock is an operation that is running
\* inside that lock and waits for no lock, so no operation waits for a lock
\* whose holder is itself waiting; and a lock with waiters has a holder.
OneLockAtATime ==
    /\ \A p \in Operations : Cardinality(LocksOf(p)) <= 1
    /\ \A c \in Channels :
          /\ locks[c].holder /= NoHolder =>
                /\ InsideLock(locks[c].holder, c)
                /\ \A d \in Channels :
                      locks[c].holder \notin Range(locks[d].waiters)
          /\ locks[c].waiters /= <<>> => locks[c].holder /= NoHolder

\* a worker holds the lock of one channel with an on_message call waiting
\* for it, while the lock of the other channel is held too
OneLockAtATimeWitness ==
    \E c \in Channels, d \in Channels :
        /\ c /= d
        /\ IsWorker(locks[c].holder)
        /\ \E m \in MsgIds : H(m) \in Range(locks[c].waiters)
        /\ locks[d].holder /= NoHolder

\* the bucket of a message: (channel, thread or none, author, month)
BucketOf(msg) == RowKey(CreatedRow(msg, 0, 0))

CountsOf(r) == <<r.messages, r.num_words, r.num_characters,
                 r.num_attachments, r.num_links>>

\* C20: the write of an on_message call creates or updates exactly one row
\* and that row is of the bucket of the message; no row is deleted, no
\* count of the updated row decreases, and every other row is unchanged.
LiveWritesOneRow ==
    [][\A m \in MsgIds :
         (hpc[m] = "write" /\ hpc'[m] = "done") =>
             \E x \in store' :
                 /\ store' \ store = {x}
                 /\ RowKey(x) = BucketOf(Msg(m))
                 /\ \A r \in store :
                       IF r.id = x.id
                       THEN \A i \in 1..5 : CountsOf(x)[i] >= CountsOf(r)[i]
                       ELSE r \in store']_vars

----------------------------------------------------------------------------
(* Thread rows and empty scans *)

\* C21: every row of the table with a thread_id has the id of a thread
\* there and the id of that thread's parent channel, which is not a thread
\* and not the thread itself, as channel_id.
ThreadRowsNameParent ==
    \A r \in store :
        r.thread_id /= NoThread =>
            /\ IsThread(r.thread_id)
            /\ r.channel_id = "C"
            /\ r.channel_id /= r.thread_id
            /\ ~IsThread(r.channel_id)

\* a recalculation of the thread has returned, an on_message call for a
\* message of the thread has written, and the table has a thread row
ThreadRowsNameParentWitness ==
    /\ \E i \in 1..Len(enqueued) :
          enqueued[i].channel = "T" /\ enqueued[i].id \in finished
    /\ \E m \in MsgIds : hpc[m] = "done" /\ Msg(m).channel = "T"
    /\ \E r \in store : r.thread_id = "T"

\* the messages of the target of worker w that its scan covers
ScannedRange(w) ==
    LET h == history[wl[w].task.channel]
    IN {i \in 1..Len(h) : wl[w].after = NoTime \/ h[i].created > wl[w].after}

\* worker w, holding the lock, gets the history of its target
Scans(w) ==
    /\ wpc[w] = "lock"
    /\ locks[wl[w].task.channel].holder = W(w)
    /\ wpc'[w] /= "lock" \/ wl'[w] /= wl[w]
    /\ ~Raises(w)

\* C22: a recalculation whose scanned range has no message returns in the
\* step that gets the history, with the table as it was (no row deleted,
\* none inserted, no id used), and its end notice gives the count 0.
EmptyScanWritesNothing ==
    [][\A w \in Workers :
         (Scans(w) /\ ScannedRange(w) = {}) =>
             /\ Returns(w)
             /\ store' = store
             /\ nextId' = nextId
             /\ \E n \in Range(NewNotices(posted, posted')) :
                   /\ n.kind = "end"
                   /\ n.channel = wl[w].task.channel
                   /\ n.count = 0]_vars

\* the empty thread has been recalculated while the table had rows, and
\* the end notice of the thread with count 0 is out
EmptyScanWritesNothingWitness ==
    /\ store /= {}
    /\ \E i \in 1..Len(enqueued) :
          enqueued[i].channel = "T" /\ enqueued[i].id \in finished
    /\ \E i \in 1..Len(posted) :
          posted[i].kind = "end" /\ posted[i].channel = "T" /\ posted[i].count = 0

----------------------------------------------------------------------------
(* Fan-out of the commands over channels and threads *)

QueuedCmds == {k \in 1..Len(cmd) : cmd[k].state = "queued"}

\* the tasks command k has put
TasksOf(k) == SubSeq(enqueued, cmd[k].first, cmd[k].last)

\* how many of the tasks of command k have target x
CountOf(k, x) ==
    Cardinality({i \in 1..Len(TasksOf(k)) : TasksOf(k)[i].channel = x})

\* command k enumerates the channels of guild G
CoversG(k) ==
    \/ cmd[k].scope = "global"
    \/ cmd[k].scope = "guild" /\ cmd[k].channel = "G"

\* C23: a command on the forum F puts exactly one task for its active
\* thread FT and one for its archived thread FA and nothing else, whatever
\* include_threads and only_threads are; a command over its guild puts
\* exactly one task for each of the two; and no task ever has the forum
\* itself as target.
ForumFansOut ==
    /\ \A k \in QueuedCmds :
          /\ (cmd[k].scope = "channel" /\ cmd[k].channel = "F") =>
                /\ Len(TasksOf(k)) = 2
                /\ CountOf(k, "FT") = 1
                /\ CountOf(k, "FA") = 1
          /\ CoversG(k) => CountOf(k, "FT") = 1 /\ CountOf(k, "FA") = 1
    /\ \A i \in 1..Len(enqueued) : enqueued[i].channel /= "F"

\* a command on the forum with include_threads and only_threads both false
\* has put its two tasks
ForumFansOutWitness ==
    \E k \in QueuedCmds :
        /\ cmd[k].scope = "channel" /\ cmd[k].channel = "F"
        /\ ~cmd[k].include_threads /\ ~cmd[k].only_threads
        /\ Len(TasksOf(k)) = 2

\* C24: a command on the voice channel V puts one task, for V, when
\* only_threads is false and none when it is true, whatever include_threads
\* is; a command over its guild puts the same for V.
VoiceNoThreads ==
    \A k \in QueuedCmds :
        /\ (cmd[k].scope = "channel" /\ cmd[k].channel = "V") =>
              /\ \A i \in 1..Len(TasksOf(k)) : TasksOf(k)[i].channel = "V"
              /\ Len(TasksOf(k)) = IF cmd[k].only_threads THEN 0 ELSE 1
        /\ CoversG(k) => CountOf(k, "V") = IF cmd[k].only_threads THEN 0 ELSE 1

\* a command on V with only_threads has put nothing, and one with
\* include_threads and without only_threads has put its one task
VoiceNoThreadsWitness ==
    /\ \E k \in QueuedCmds :
          /\ cmd[k].scope = "channel" /\ cmd[k].channel = "V"
          /\ cmd[k].only_threads
          /\ Len(TasksOf(k)) = 0
    /\ \E k \in QueuedCmds :
          /\ cmd[k].scope = "channel" /\ cmd[k].channel = "V"
          /\ cmd[k].include_threads /\ ~cmd[k].only_threads
          /\ Len(TasksOf(k)) = 1

\* C25: no task has as target the category K, the channel N the bot cannot
\* view, the channel M whose history it cannot read, or a thread of N or M;
\* a command over guild G, where K, N and M are listed before other
\* channels, still puts one task for each of C, D and V unless
\* only_threads, and one for the threads T and DT if include_threads; a
\* global command covers guild H after G as well; and a command on N or M
\* ends having put nothing.
SkipsUnreadable ==
    /\ \A i \in 1..Len(enqueued) :
          enqueued[i].channel \notin {"K", "N", "M", "NT", "MT"}
    /\ \A k \in QueuedCmds :
          /\ (CoversG(k) /\ ~cmd[k].only_threads) =>
                \A x \in {"C", "D", "V"} : CountOf(k, x) = 1
          /\ (CoversG(k) /\ cmd[k].include_threads) =>
                \A x \in {"T", "DT"} : CountOf(k, x) = 1
          /\ (cmd[k].scope = "global" /\ ~cmd[k].only_threads) =>
                CountOf(k, "E") = 1
          /\ (cmd[k].scope = "channel" /\ cmd[k].channel \in {"N", "M"}) =>
                Len(TasksOf(k)) = 0

\* a command over guild G with threads has put its tasks, and a command on
\* M has ended
SkipsUnreadableWitness ==
    /\ \E k \in QueuedCmds :
          /\ cmd[k].scope = "guild" /\ cmd[k].channel = "G"
          /\ cmd[k].include_threads /\ ~cmd[k].only_threads
          /\ CountOf(k, "V") = 1
    /\ \E k \in QueuedCmds : cmd[k].scope = "channel" /\ cmd[k].channel = "M"

\* the channels a command enumerates
ScopeOf(c) ==
    IF c.scope = "channel" THEN {c.channel}
    ELSE IF c.scope = "guild" THEN Range(GuildChannels(c.channel))
    ELSE Range(GuildChannels("G")) \cup Range(GuildChannels("H"))

\* the threads of the two guilds, and those the bot can see: DQ is a
\* private archived thread it has not joined and cannot manage
AllThreads == {"T", "NT", "MT", "DT", "DA", "DP", "DQ", "FT", "FA", "EP", "EQ"}
SeenThreads == AllThreads \ {"DQ"}

\* the leaf targets of a request: every readable channel of the scope that
\* is neither category nor forum, unless only_threads; and every thread the
\* bot sees of a readable forum of the scope, or of a readable text channel
\* of the scope if include_threads
Eligible(c) ==
    {x \in ScopeOf(c) :
        /\ Kind(x) \notin {"category", "forum"}
        /\ PermissionBase(x) \notin {"N", "M"}
        /\ ~c.only_threads}
    \cup {t \in SeenThreads :
            /\ PermissionBase(t) \in ScopeOf(c) \ {"N", "M"}
            /\ PermissionBase(t) = "F" \/ c.include_threads}

Request(c) == <<c.scope, c.channel, c.include_threads, c.only_threads,
                c.since_last>>

\* C26: two commands with the same request have put the same targets with
\* the same flags; the tasks of a command have exactly the eligible leaf
\* targets of its request as targets, none twice, and each carries the
\* since_last flag of the request.
FanOutDeterministic ==
    /\ \A j \in QueuedCmds, k \in QueuedCmds :
          Request(cmd[j]) = Request(cmd[k]) =>
              [i \in 1..Len(TasksOf(j)) |->
                  <<TasksOf(j)[i].channel, TasksOf(j)[i].since_last>>]
              = [i \in 1..Len(TasksOf(k)) |->
                  <<TasksOf(k)[i].channel, TasksOf(k)[i].since_last>>]
    /\ \A k \in QueuedCmds :
          /\ {TasksOf(k)[i].channel : i \in 1..Len(TasksOf(k))} = Eligible(cmd[k])
          /\ \A x \in Eligible(cmd[k]) : CountOf(k, x) = 1
          /\ \A i \in 1..Len(TasksOf(k)) :
                TasksOf(k)[i].since_last = cmd[k].since_last

\* the same global request with since_last and threads has been run twice
FanOutDeterministicWitness ==
    \E j \in QueuedCmds, k \in QueuedCmds :
        /\ j < k
        /\ Request(cmd[j]) = Request(cmd[k])
        /\ cmd[k].scope = "global"
        /\ cmd[k].since_last /\ cmd[k].include_threads /\ ~cmd[k].only_threads
        /\ Len(TasksOf(k)) > 4

(* Privacy modes of the /statistics queries *)

\* an answer of the package's UserHandler / of the user command
Answered(handler, mode) ==
    /\ reply.handler = handler
    /\ reply.error = "none"
    /\ reply.private_mode = mode

\* the member's thread rows of channel ch that are flagged private
PrivateThreadRows(ch) ==
    {r \in UserRows(store, TRUE) :
        /\ r.channel_id = ch
        /\ r.thread_id /= NoThread
        /\ Truthy(r.is_private)}

\* the rows of the answer that stand for private threads of channel ch
PrivateThreadStats(ch) ==
    {k \in 1..Len(reply.stats) :
        /\ reply.stats[k].channel_id = ch
        /\ reply.stats[k].thread_id /= NoThread
        /\ Truthy(reply.stats[k].is_private)}

\* C27: in the aggregate mode the private thread rows of one channel and
\* author are answered as one row, whose sum is the sum of the rows and
\* whose aggregated count is the number of rows beyond the first, whatever
\* the sums are.
AggregateMergesPrivateThreads ==
    (Answered("UserHandler", "aggregate") /\ reply.include_threads) =>
        \A ch \in {"C", "D"} :
            PrivateThreadRows(ch) /= {} =>
                \E k \in 1..Len(reply.stats) :
                    /\ PrivateThreadStats(ch) = {k}
                    /\ reply.stats[k].sum = SumMessages(PrivateThreadRows(ch))
                    /\ reply.stats[k].agg_count =
                           Cardinality(PrivateThreadRows(ch)) - 1

\* C28: in the exclude mode the rows flagged private are dropped
\* entirely: none is in the answer's rows, none is in the graph, and the
\* total counts only rows that are not flagged private.
ExcludeDropsPrivate ==
    \A handler \in {"UserHandler", "user"} :
        Answered(handler, "exclude") =>
            /\ \A k \in 1..Len(reply.stats) :
                  NotFlaggedPrivate(reply.stats[k])
            /\ \A k \in 1..Len(reply.graph) :
                  NotFlaggedPrivate(reply.graph[k])
            /\ reply.total = Total(SelectSeq(reply.stats, NotFlaggedPrivate))

\* the row r of the table is behind the k-th row the answer lists
ListedAs(r, k) ==
    /\ reply.listed[k].channel_id = r.channel_id
    /\ reply.listed[k].is_private = r.is_private
    /\ (reply.aggregate_threads \/ reply.listed[k].thread_id = r.thread_id)

EphemeralOnlyIfPrivate ==
    Answered("user", "ephemeral_only_if_private") =>
        (reply.ephemeral <=>
            \E k \in 1..Len(reply.stats) : is_private_stat(reply.stats[k]))

(* Date options *)

\* the handler has been asked, whatever came of it
Asked == reply.handler = "UserHandler"

\* one of month and year is given and the other is not
Partial(month, year) ==
    \/ month = None /\ year /= None
    \/ month /= None /\ year = None

\* the first instant of the month the pair names
FirstOf(month, year) ==
    MonthStart(DateOf(CHOOSE y \in year : TRUE, CHOOSE m \in month : TRUE))

Whole(month, year) == month /= None /\ year /= None

\* C31: a query is rejected, with a validation error and without reading
\* the table, exactly when a month/year pair is given by half, or the
\* after date is later than today, or the after date is later than the
\* before date; every other query is accepted and reads the table, equal
\* before and after dates included.
DateValidation ==
    Asked =>
        /\ reply.error /= "none" <=>
              \/ Partial(reply.before_month, reply.before_year)
              \/ Partial(reply.after_month, reply.after_year)
              \/ /\ Whole(reply.after_month, reply.after_year)
                 /\ FirstOf(reply.after_month, reply.after_year) > now
              \/ /\ Whole(reply.after_month, reply.after_year)
                 /\ Whole(reply.before_month, reply.before_year)
                 /\ FirstOf(reply.after_month, reply.after_year)
                       > FirstOf(reply.before_month, reply.before_year)
        /\ reply.queried <=> reply.error = "none"
        /\ reply.error /= "none" => reply.ephemeral

\* a query whose after date is past, and later than its before date, has
\* been rejected
DateValidationWitness ==
    /\ Asked
    /\ Whole(reply.after_month, reply.after_year)
    /\ Whole(reply.before_month, reply.before_year)
    /\ FirstOf(reply.after_month, reply.after_year) <= now
    /\ FirstOf(reply.after_month, reply.after_year)
          > FirstOf(reply.before_month, reply.before_year)
    /\ reply.error /= "none"
    /\ ~reply.queried

(* Recalculation against live ingest *)

\* the table the live path builds from an empty one by ingesting the first
\* k messages of h one by one: the first message of a bucket creates its
\* row, every later one is added to it
RECURSIVE LiveIngest(_, _)
LiveIngest(h, k) ==
    IF k = 0 THEN {}
    ELSE LET rows == LiveIngest(h, k - 1)
             msg == h[k]
             found == Filter(rows, LookupKw(msg))
         IN  IF found = {}
             THEN rows \cup {CreatedRow(msg, k, msg.created)}
             ELSE LET existing == CHOOSE r \in found : TRUE
                  IN  (rows \ {existing})
                      \cup {DeltaAdd(existing, Delta(msg), msg.created)}

\* C32: after a full recalculation of a target, its rows carry for every
\* author and month the message, word, character, attachment and link
\* counts that live ingest of the same messages, one by one, produces; the
\* links of an author's several messages of a month add up.
RecalcEqualsLive ==
    \A c \in Channels :
        OnlyFullRunsOf(c) =>
            {Counts(r) : r \in TargetRows(store, c)}
            = {Counts(r) : r \in LiveIngest(history[c], Len(history[c]))}

(* Incremental recalculation *)

\* worker w runs an incremental recalculation and is past its query, where
\* `had` is the most recently updated row its target had
PastQuery(w) ==
    /\ wpc[w] \in {"lock", "delete", "insert"}
    /\ wl[w].task.since_last

\* C33: the lower bound of an incremental recalculation comes from the
\* rows of its target alone: it is the start of the month of the last
\* update of the most recently updated row of the target (for a channel,
\* the rows of the channel without thread), and there is none, so that the
\* whole history is scanned, when the target has no row.
BoundFromOwnRows ==
    \A w \in Workers :
        PastQuery(w) =>
            wl[w].after = AfterOf(wl[w].had)

\* the month whose start bounds the incremental recalculation of worker w:
\* the month of the last update of the row its target had
BoundMonth(w) == MonthOf(wl[w].had.last_updated)

\* C34: an incremental recalculation whose lower bound is the start of
\* month M, the month of the last update of its target's latest row, leaves
\* every stored row of a month earlier than M as it is.
IncrementalKeepsEarlierMonths ==
    [][\A w \in Workers :
          (/\ PastQuery(w)
           /\ wl[w].had /= NoRow
           /\ wpc'[w] /= wpc[w])
          => \A r \in store : r.month < BoundMonth(w) => r \in store']_vars

(* Recalculation over a table with a past *)

KeyOf(x) == <<x.author_id, x.month>>

\* C35: whatever rows the table held before, once a full recalculation of a
\* target has returned the rows of the target are exactly the reference
\* aggregation of its history: one row per author and month of the history
\* with the reference counts, no row of an author without messages in the
\* month and no row of a month without messages.
RecalcReplacesStale ==
    \A c \in Channels :
        OnlyFullRunsOf(c) =>
            /\ {KeyOf(r) : r \in TargetRows(store, c)}
                  = {KeyOf(x) : x \in RefCounts(history[c])}
            /\ {Counts(r) : r \in TargetRows(store, c)} = RefCounts(history[c])

(* A fan-out run by the pool *)

\* the tasks enqueued are those of one full fan-out over channel C and its
\* threads, and all of them have returned
FanOutDone ==
    /\ [i \in 1..Len(enqueued) |-> enqueued[i].channel]
          = QueuedTargets("C", TRUE, FALSE)
    /\ \A i \in 1..Len(enqueued) : ~enqueued[i].since_last
    /\ finished = 1..Len(enqueued)

MessagesOf(x) == <<x.author_id, x.month, x.messages>>

\* C36: once the tasks of one fan-out over a channel and its threads have
\* all returned, however the workers interleaved, the rows of the channel
\* itself and the rows of each thread are those of the reference
\* aggregation of their histories (here: the same authors and months with
\* the same message counts); no flush has cost another target its rows.
FanOutSettles ==
    FanOutDone =>
        \A c \in Channels :
            {MessagesOf(Counts(r)) : r \in TargetRows(store, c)}
            = {MessagesOf(x) : x \in RefCounts(history[c])}

(* Locks and operations that end early *)

\* worker w runs a task that has neither returned nor raised
Running(w) ==
    /\ wl[w].task /= NoTask
    /\ wl[w].task.id \notin failed \cup finished

\* C37: no channel lock is held by an operation that has ended: a lock a
\* worker holds is the lock of the channel of a task it is still running,
\* also after a recalculation has raised or the workers were cancelled; and
\* an on_message call or a recalculation that waits for a lock gets it,
\* unless it is a recalculation whose worker is cancelled.
LockNeverLeftHeld ==
    /\ [](\A c \in Channels, w \in Workers :
            locks[c].holder = W(w) =>
                /\ wpc[w] \in {"lock", "delete", "insert"}
                /\ Running(w)
                /\ wl[w].task.channel = c)
    /\ \A c \in Channels, m \in MsgIds :
          (H(m) \in Range(locks[c].waiters)) ~> (locks[c].holder = H(m))
    /\ \A c \in Channels, w \in Workers :
          (W(w) \in Range(locks[c].waiters))
             ~> (locks[c].holder = W(w) \/ wpc[w] = "dead")

\* the recalculation of a channel has raised, and an on_message call for a
\* message of that channel holds the lock now
LockNeverLeftHeldWitness ==
    \E i \in DOMAIN enqueued, m \in MsgIds :
        /\ enqueued[i].id \in failed
        /\ locks[enqueued[i].channel].holder = H(m)

----------------------------------------------------------------------------
(* The notices of a task                                                   *)

\* the notices of one kind about channel c among q
NoticesAbout(q, kind, c) ==
    Cardinality({i \in 1..Len(q) : q[i].kind = kind /\ q[i].channel = c})

\* the tasks on channel c among the ids
TasksOn(ids, c) ==
    Cardinality({i \in 1..Len(enqueued) :
                    enqueued[i].id \in ids /\ enqueued[i].channel = c})

\* every task taken has its start notice and every task returned its finish
\* notice, a failed one none; a finish notice comes after the start notice
\* of its task
NoticeTally ==
    /\ \A c \in Channels :
          /\ NoticesAbout(posted, "start", c) = TasksOn(Range(dequeued), c)
          /\ NoticesAbout(posted, "end", c) = TasksOn(finished, c)
    /\ \A i \in 1..Len(posted), c \in Channels :
          NoticesAbout(SubSeq(posted, 1, i), "end", c)
             <= NoticesAbout(SubSeq(posted, 1, i), "start", c)

\* the step that takes a task puts its start notice with nothing of the
\* channel read yet; the step that puts a finish notice is the successful
\* return of a recalculation of that channel, and the notice carries the
\* number of messages the recalculation went through
NoticeSteps ==
    /\ \A w \in Workers : \A i \in 1..Len(enqueued) :
          Takes(w, enqueued[i]) =>
              /\ wl'[w].buf = <<>> /\ wl'[w].total_msgs = 0
              /\ wpc'[w] \in {"query", "lock"}
              /\ \E n \in Range(NewNotices(posted, posted')) :
                    n.kind = "start" /\ n.channel = enqueued[i].channel
    /\ \A n \in Range(NewNotices(posted, posted')) :
          n.kind = "end" =>
              \E w \in Workers :
                  /\ wl[w].task /= NoTask
                  /\ wl[w].task.id \in finished' \ finished
                  /\ n.channel = wl[w].task.channel
                  /\ n.count = Len(History(history[n.channel], wl[w].after))
    /\ \A w \in Workers :
          Raises(w) =>
              \A n \in Range(NewNotices(posted, posted')) : n.kind = "start"

\* C38 as stated: for every task a worker takes, the start notice is put on
\* message_tasks before the recalculation begins; a finish notice is put only
\* when the recalculation has returned, after the start notice of the task
\* and with the number of messages processed; a failed task has a start
\* notice and no finish notice.
NoticesBracketTask ==
    /\ []NoticeTally
    /\ [][NoticeSteps]_vars

\* C38 (amended): the same on a guild where the bot sees
\* RECALCULATION_LOG_CHANNEL; where it does not, nothing is asserted.
NoticesBracketTaskSeen ==
    /\ [](log_channel => NoticeTally)
    /\ [][log_channel => NoticeSteps]_vars

\* with the log channel seen, one recalculation has failed and a later one
\* has returned: two start notices and one finish notice that counts the
\* messages of a channel with a past
NoticesBracketTaskSeenWitness ==
    /\ log_channel
    /\ failed /= {}
    /\ finished /= {}
    /\ \E i \in 1..Len(posted) : posted[i].kind = "end" /\ posted[i].count > 1
    /\ Cardinality({i \in 1..Len(posted) : posted[i].kind = "start"}) = 2

----------------------------------------------------------------------------
(* The privacy flag of a thread's rows                                     *)

\* C39: the flush of a recalculation writes the rows of a thread with the
\* is_private flag they had: a row the flush inserts for a thread, author and
\* month that had a row when the scan began (created by the live path, or
\* written by an earlier flush) carries the flag of that row.
RecalcKeepsPrivacyFlag ==
    [][\A w \in Workers :
          wpc[w] = "insert" =>
              \A x \in store' \ store : \A r \in wl[w].before.rows :
                  (x.thread_id /= NoThread /\ RowKey(r) = RowKey(x)) =>
                      x.is_private = r.is_private]_vars

----------------------------------------------------------------------------
(* Thread aggregation                                                      *)

\* sum(value["sum"] for value in values)
RECURSIVE SumOfValues(_)
SumOfValues(S) ==
    IF S = {} THEN 0
    ELSE LET v == CHOOSE v \in S : TRUE
         IN  v.sum + SumOfValues(S \ {v})

\* sum(stat.agg_count for stat in stats)
RECURSIVE TotalAggregated(_)
TotalAggregated(stats) ==
    IF stats = <<>> THEN 0
    ELSE Head(stats).agg_count + TotalAggregated(Tail(stats))

\* the values the query of the answer gave to aggregate_threads
Queried == UserQueryset(store, reply.include_threads)

\* C40: in an answer of an aggregating mode, whatever the order of the
\* rows, the sums of the rows returned by aggregate_threads add up to the
\* sums of the rows it was given; a row without thread, or of a thread the
\* condition does not hold for, is among them as it was; and the rows
\* returned plus their aggregated counts are as many as the rows given.
ThreadAggregationConserves ==
    \A mode \in ALL_AGGREGATE :
        Answered("UserHandler", mode) =>
            /\ Total(reply.stats) = SumOfValues(Queried)
            /\ \A v \in Queried :
                  (v.thread_id = NoThread \/ ~Condition(v, mode)) =>
                      \E k \in 1..Len(reply.stats) :
                          reply.stats[k] = v @@ [agg_count |-> 0]
            /\ Len(reply.stats) + TotalAggregated(reply.stats)
                   = Cardinality(Queried)

\* an answer of the aggregate mode with a row that stands for several
\* private threads, a row of a thread that is not private and a row of the
\* channel itself
ThreadAggregationConservesWitness ==
    /\ Answered("UserHandler", "aggregate")
    /\ \E k \in 1..Len(reply.stats) : reply.stats[k].agg_count > 0
    /\ \E k \in 1..Len(reply.stats) :
          /\ reply.stats[k].thread_id /= NoThread
          /\ ~Truthy(reply.stats[k].is_private)
    /\ \E k \in 1..Len(reply.stats) : reply.stats[k].thread_id = NoThread

====
